---- MODULE Spec2Model ----
(***************************************************************************)
(* A model of CSON-rust's reader (src/src/reader.rs) and of the value      *)
(* representation it builds (src/src/repr.rs).                             *)
(*                                                                         *)
(* Bytes are the integers 0..255.  An input is a sequence of bytes.  The   *)
(* reader is a record holding the buffered source: its data, the number of *)
(* bytes consumed so far and the size of the windows fill_buf hands out.   *)
(* Every production takes a reader and returns a record                    *)
(*     [st, v, r, cause]                                                   *)
(* with st = "ok" (Ok(v) / Ok(Some(v))), "none" (Ok(None)) or "err"        *)
(* (Err(ReaderError{cause})), and r the reader after the call.             *)
(***************************************************************************)
EXTENDS Integers, Sequences, FiniteSets, TLC

VARIABLES
    tree,      \* the repr::Atom the conversions are applied to (NoAtom when none)
    jsonlike,  \* the json::Json made of it
    base,      \* the text the input text is a variant of (NoBase when of none)
    toks,      \* the pieces the input text is made of (each a byte sequence)
    window,    \* size of the windows the buffered source fills
    pc,        \* "start" before the entry point is called, "done" after
    entry,     \* which entry point was called: "value" or "document"
    result,    \* what the entry point returned
    helper,    \* function run one source call at a time: "idle", its name, "returned"
    pending,   \* bytes the source of that function has not handed out yet
    zeroes,    \* consecutive empty answers the running function has been given
    io         \* the locals of the running function of util::io

vars == <<tree, jsonlike, base, toks, window, pc, entry, result, helper, pending, zeroes, io>>

(***************************************************************************)
(* Sequences of bytes.                                                     *)
(***************************************************************************)
RECURSIVE Flatten(_)
Flatten(ss) == IF ss = <<>> THEN <<>> ELSE Head(ss) \o Flatten(Tail(ss))

Prefix(s, n) == SubSeq(s, 1, n)

\* Lexicographic order of byte strings: the order of str, hence of Key.
RECURSIVE StrLess(_, _)
StrLess(a, b) ==
    IF b = <<>> THEN FALSE
    ELSE IF a = <<>> THEN TRUE
    ELSE IF Head(a) # Head(b) THEN Head(a) < Head(b)
    ELSE StrLess(Tail(a), Tail(b))

Byte == 0..255

\* The first index of s whose byte is in stops, or 0 when there is none.
FirstIdx(s, stops) ==
    IF \E i \in 1..Len(s) : s[i] \in stops
    THEN CHOOSE i \in 1..Len(s) :
            s[i] \in stops /\ \A j \in 1..(i - 1) : s[j] \notin stops
    ELSE 0

IsDigit(b) == 48 <= b /\ b <= 57          \* b'0'..b'9'
IsNewline(b) == b = 10 \/ b = 13          \* 0x0a | 0x0d

(***************************************************************************)
(* Results of productions.                                                 *)
(***************************************************************************)
Ok(v, r) == [st |-> "ok", v |-> v, r |-> r, cause |-> ""]
NoneAt(r) == [st |-> "none", v |-> <<>>, r |-> r, cause |-> ""]
reader_err(cause, r) == [st |-> "err", v |-> <<>>, r |-> r, cause |-> cause]

\* A failed assert! or assert_eq!: the task fails and the entry point returns
\* nothing.  It is kept as an error of its own, which no production handles.
ASSERTION_FAILED == "assertion failed"
assert_failed(r) == reader_err(ASSERTION_FAILED, r)

(***************************************************************************)
(* repr::Atom.  An integer is kept as sign and decimal magnitude (its      *)
(* digits without leading zeros), so that 64-bit values keep their width.  *)
(* A float is kept as the text from_str::<f64> was given.                  *)
(***************************************************************************)
Null == [tag |-> "Null"]
True == [tag |-> "True"]
False == [tag |-> "False"]
IntegralNumber(neg, mag) == [tag |-> "I64", neg |-> neg, mag |-> mag]
Number(text) == [tag |-> "F64", text |-> text]
OwnedString(s) == [tag |-> "Str", s |-> s]
List(l) == [tag |-> "List", l |-> l]
Object(o) == [tag |-> "Object", o |-> o]
U64(mag) == [tag |-> "U64", mag |-> mag]

\* No value.
NoAtom == [tag |-> "none"]

(***************************************************************************)
(* The buffered source (std::io::Buffer over the input).  fill_buf hands   *)
(* out the unread bytes up to the end of the current window, or reports    *)
(* the end of the stream; consume advances the cursor.                     *)
(***************************************************************************)
NewReader(data, w) == [data |-> data, pos |-> 0, w |-> w, cuts |-> {}]

\* A source that fills windows of any sizes: a window ends at each position
\* of cuts (w = 0).
NewReaderCut(data, cuts) == [data |-> data, pos |-> 0, w |-> 0, cuts |-> cuts]

AtEof(r) == r.pos >= Len(r.data)

\* The end of the window that holds the next byte.
CutEnd(r) ==
    IF \E c \in r.cuts : r.pos < c /\ c < Len(r.data)
    THEN CHOOSE c \in r.cuts :
             /\ r.pos < c
             /\ \A d \in r.cuts : r.pos < d => c <= d
    ELSE Len(r.data)

WindowEnd(r) ==
    IF r.w = 0 THEN CutEnd(r)
    ELSE LET e == ((r.pos \div r.w) + 1) * r.w
         IN  IF e < Len(r.data) THEN e ELSE Len(r.data)

\* The window of an `Ok(buf)`; only used when ~AtEof(r).
fill_buf(r) == SubSeq(r.data, r.pos + 1, WindowEnd(r))

consume(r, n) == [r EXCEPT !.pos = r.pos + n]

\* Buffer::read_byte: one byte, or the end of the stream.
buf_read_byte(r) ==
    IF AtEof(r) THEN NoneAt(r) ELSE Ok(r.data[r.pos + 1], consume(r, 1))

\* Buffer::read_at_least(n, scratch): reads n bytes, or all that is left
\* when the stream ends first; what it read is left in the scratch buffer.
buf_read_at_least(r, n) ==
    LET left == IF AtEof(r) THEN 0 ELSE Len(r.data) - r.pos
        got == IF left < n THEN left ELSE n
    IN  [bytes |-> SubSeq(r.data, r.pos + 1, r.pos + got), r |-> consume(r, got)]

(***************************************************************************)
(* Buffered scan primitives of the reader.                                 *)
(***************************************************************************)
NoByte == -1     \* `None` of an Option<u8> or Option<uint>

\* Ok(Some(byte)) as the byte, Ok(None) as NoByte.  The source of a parse
\* never hands out an empty window, so the loop runs once.
peek(r) == IF AtEof(r) THEN NoByte ELSE fill_buf(r)[1]

\* A reader that never looks for the end of the input.
eof_unchecked(r) == Ok(<<>>, r)

\* Ok(()) is "ok", Err("expected end of file") is "err".
eof(r) ==
    IF AtEof(r) THEN Ok(<<>>, r)
    ELSE IF fill_buf(r) # <<>> THEN reader_err("expected end of file", r)
    ELSE Ok(<<>>, r)

MAX_TOKEN_LEN == 8

\* A token looked for in the current window alone.
fixed_token_opt_one_window(r, token) ==
    LET compare(rd) ==
            IF rd.bytes \o [i \in 1..(Len(token) - Len(rd.bytes)) |-> 0] = token
            THEN Ok(<<>>, rd.r)
            ELSE NoneAt(rd.r)
    IN  compare(buf_read_at_least(
                    r, IF Len(fill_buf(r)) < Len(token) THEN Len(fill_buf(r)) ELSE Len(token)))

\* "ok" when the bytes read equal the token, "none" otherwise.  The scratch
\* buffer starts zeroed, so bytes the stream did not deliver compare as 0.
fixed_token_opt(r, token) ==
    LET compare(rd) ==
            IF rd.bytes \o [i \in 1..(Len(token) - Len(rd.bytes)) |-> 0] = token
            THEN Ok(<<>>, rd.r)
            ELSE NoneAt(rd.r)
    IN  IF Len(token) > MAX_TOKEN_LEN THEN assert_failed(r)
        ELSE compare(buf_read_at_least(r, Len(token)))

\* The scanning closures handed to loop_with_buffer, over one window `buf`.
\* ret is the stop offset (NoByte for None), ext the bytes the closure
\* appends to its byte vector, newline and flag the captured variables it
\* sets (flag is comment_chars or escaped_follows).
\* Each closure is written as the outcome of stopping at index j of the
\* window (j = 0: no byte of the window stops the scan).
\* A closure that stops at a tab.
cb_skip_ws_no_tab(buf) ==
    LET stop(j) ==
            [ret |-> IF j = 0 THEN NoByte ELSE IF buf[j] = 35 THEN j ELSE j - 1,
             ext |-> <<>>,
             newline |-> \E k \in 1..(IF j = 0 THEN Len(buf) ELSE j - 1) :
                            IsNewline(buf[k]),
             flag |-> j # 0 /\ buf[j] = 35]
    IN  stop(FirstIdx(buf, Byte \ {32, 10, 13}))

cb_skip_ws(buf) ==
    LET stop(j) ==
            [ret |-> IF j = 0 THEN NoByte ELSE IF buf[j] = 35 THEN j ELSE j - 1,
             ext |-> <<>>,
             newline |-> \E k \in 1..(IF j = 0 THEN Len(buf) ELSE j - 1) :
                            IsNewline(buf[k]),
             flag |-> j # 0 /\ buf[j] = 35]
    IN  stop(FirstIdx(buf, Byte \ {32, 9, 10, 13}))

cb_non_newline_chars(buf) ==
    LET stop(j) ==
            [ret |-> IF j = 0 THEN NoByte ELSE j - 1,
             ext |-> IF j = 0 THEN buf ELSE Prefix(buf, j - 1),
             newline |-> FALSE, flag |-> FALSE]
    IN  stop(FirstIdx(buf, {10, 13}))

cb_digits(buf) ==
    LET stop(j) ==
            [ret |-> IF j = 0 THEN NoByte ELSE j - 1,
             ext |-> IF j = 0 THEN buf ELSE Prefix(buf, j - 1),
             newline |-> FALSE, flag |-> FALSE]
    IN  stop(FirstIdx(buf, Byte \ (48..57)))

cb_quoted(buf, quote) ==
    LET stop(j) ==
            [ret |-> IF j = 0 THEN NoByte ELSE j,
             ext |-> IF j = 0 THEN buf ELSE Prefix(buf, j - 1),
             newline |-> FALSE,
             flag |-> j # 0 /\ buf[j] = 92]
    IN  stop(FirstIdx(buf, {92, quote}))

callback(cb, quote, buf) ==
    CASE cb = "skip_ws" -> cb_skip_ws(buf)
      [] cb = "non_newline_chars" -> cb_non_newline_chars(buf)
      [] cb = "digits" -> cb_digits(buf)
      [] cb = "quoted" -> cb_quoted(buf, quote)

\* found is the Ok(bool); bytes, newline and flag are what the closure has
\* accumulated over all the windows it was run on.
RECURSIVE loop_with_buffer_from(_, _, _, _)
loop_with_buffer_from(r, cb, quote, acc) ==
    IF AtEof(r) THEN [found |-> FALSE, r |-> r, bytes |-> acc.bytes,
                      newline |-> acc.newline, flag |-> acc.flag]
    ELSE LET called(buf, acc2, ret) ==
                 IF ret # NoByte
                 THEN [found |-> TRUE, r |-> consume(r, ret), bytes |-> acc2.bytes,
                       newline |-> acc2.newline, flag |-> acc2.flag]
                 ELSE loop_with_buffer_from(consume(r, Len(buf)), cb, quote, acc2)
             run(buf, c) ==
                 called(buf,
                        [bytes |-> acc.bytes \o c.ext,
                         newline |-> acc.newline \/ c.newline,
                         flag |-> acc.flag \/ c.flag],
                        c.ret)
             filled(buf) == run(buf, callback(cb, quote, buf))
         IN  filled(fill_buf(r))

loop_with_buffer(r, cb, quote) ==
    loop_with_buffer_from(r, cb, quote,
                          [bytes |-> <<>>, newline |-> FALSE, flag |-> FALSE])

skip_non_newline_chars(r) == loop_with_buffer(r, "non_newline_chars", NoByte).r

\* [bytes, r]
non_newline_chars(r) == loop_with_buffer(r, "non_newline_chars", NoByte)

\* [newline, r]: newline is whether Some(Newline) is returned.
RECURSIVE skip_ws_from(_, _)

\* One round of the loop of skip_ws, after its scan l: a comment is skipped
\* and the loop goes on, anything else ends it.
skip_ws_scanned(l, newline) ==
    IF l.flag
    THEN skip_ws_from(skip_non_newline_chars(l.r), newline \/ l.newline)
    ELSE [newline |-> newline \/ l.newline, r |-> l.r]

skip_ws_from(r, newline) ==
    skip_ws_scanned(loop_with_buffer(r, "skip_ws", NoByte), newline)

skip_ws(r) == skip_ws_from(r, FALSE)

\* A separator that takes a second comma after the first.
skip_value_separator_skipped_twice(w) ==
    IF peek(w.r) # 44
    THEN IF ~w.newline THEN NoneAt(w.r) ELSE Ok(<<>>, w.r)
    ELSE IF peek(skip_ws(consume(w.r, 1)).r) = 44
    THEN Ok(<<>>, skip_ws(consume(skip_ws(consume(w.r, 1)).r, 1)).r)
    ELSE Ok(<<>>, skip_ws(consume(w.r, 1)).r)

\* skip_value_separator_opt after its first skip_ws, which returned w.
skip_value_separator_skipped(w) ==
    IF peek(w.r) = 44
    THEN Ok(<<>>, skip_ws(consume(w.r, 1)).r)
    ELSE IF ~w.newline THEN NoneAt(w.r) ELSE Ok(<<>>, w.r)

\* "ok" for Some(()), "none" for None.
skip_value_separator_opt(r) == skip_value_separator_skipped(skip_ws(r))

(***************************************************************************)
(* Byte classification tables and UTF-8.                                   *)
(***************************************************************************)
In(c, lo, hi) == lo <= c /\ c <= hi

is_id_start(c) ==
    \/ c = 36 \/ c = 45 \/ In(c, 65, 90) \/ c = 95 \/ In(c, 97, 122)
    \/ c = 170 \/ c = 181 \/ c = 186
    \/ In(c, 192, 214) \/ In(c, 216, 246) \/ In(c, 248, 767)
    \/ In(c, 880, 893) \/ In(c, 895, 8191) \/ In(c, 8204, 8205)
    \/ In(c, 8304, 8591) \/ In(c, 11264, 12271) \/ In(c, 12289, 55295)
    \/ In(c, 63744, 64975) \/ In(c, 65008, 65533) \/ In(c, 65536, 983039)

\* A table that takes 0xc4..0xcd in one range, 0xcc with it.
is_id_start_byte_one_range(b) ==
    \/ b = 36 \/ b = 45 \/ In(b, 65, 90) \/ b = 95 \/ In(b, 97, 122)
    \/ b = 194 \/ b = 195 \/ In(b, 196, 205) \/ In(b, 206, 225)
    \/ b = 226 \/ In(b, 227, 237) \/ b = 239 \/ In(b, 240, 243)

is_id_start_byte(b) ==
    \/ b = 36 \/ b = 45 \/ In(b, 65, 90) \/ b = 95 \/ In(b, 97, 122)
    \/ b = 194 \/ b = 195 \/ In(b, 196, 203) \/ b = 205 \/ In(b, 206, 225)
    \/ b = 226 \/ In(b, 227, 237) \/ b = 239 \/ In(b, 240, 243)

\* A table whose last range starts one scalar value late.
is_id_end_late(c) ==
    \/ c = 36 \/ In(c, 45, 46) \/ In(c, 48, 57) \/ In(c, 65, 90) \/ c = 95
    \/ In(c, 97, 122) \/ c = 170 \/ c = 181 \/ c = 183 \/ c = 186
    \/ In(c, 192, 214) \/ In(c, 216, 246) \/ In(c, 248, 893)
    \/ In(c, 895, 8191) \/ In(c, 8204, 8205) \/ In(c, 8255, 8256)
    \/ In(c, 8304, 8591) \/ In(c, 11264, 12271) \/ In(c, 12289, 55295)
    \/ In(c, 63744, 64975) \/ In(c, 65008, 65533) \/ In(c, 65537, 983039)

is_id_end(c) ==
    \/ c = 36 \/ In(c, 45, 46) \/ In(c, 48, 57) \/ In(c, 65, 90) \/ c = 95
    \/ In(c, 97, 122) \/ c = 170 \/ c = 181 \/ c = 183 \/ c = 186
    \/ In(c, 192, 214) \/ In(c, 216, 246) \/ In(c, 248, 893)
    \/ In(c, 895, 8191) \/ In(c, 8204, 8205) \/ In(c, 8255, 8256)
    \/ In(c, 8304, 8591) \/ In(c, 11264, 12271) \/ In(c, 12289, 55295)
    \/ In(c, 63744, 64975) \/ In(c, 65008, 65533) \/ In(c, 65536, 983039)

is_id_end_byte(b) ==
    \/ b = 36 \/ In(b, 45, 46) \/ In(b, 48, 57) \/ In(b, 65, 90) \/ b = 95
    \/ In(b, 97, 122) \/ b = 194 \/ b = 195 \/ In(b, 196, 225) \/ b = 226
    \/ In(b, 227, 237) \/ b = 239 \/ In(b, 240, 243)

utf8_char_width(b) ==
    IF b < 128 THEN 1
    ELSE IF b < 194 THEN 0
    ELSE IF b < 224 THEN 2
    ELSE IF b < 240 THEN 3
    ELSE IF b < 245 THEN 4
    ELSE 0

\* The bytes of one scalar value (char::encode_utf8).
encode_utf8_raw(code) ==
    IF code < 128 THEN <<code>>
    ELSE IF code < 2048 THEN
        <<((code \div 64) % 32) + 192, (code % 64) + 128>>
    ELSE IF code < 65536 THEN
        <<((code \div 4096) % 16) + 224, ((code \div 64) % 64) + 128,
          (code % 64) + 128>>
    ELSE
        <<((code \div 262144) % 8) + 240, ((code \div 4096) % 64) + 128,
          ((code \div 64) % 64) + 128, (code % 64) + 128>>

IsCont(b) == In(b, 128, 191)

\* Whether s (of the width its first byte announces) encodes one scalar value.
ValidChar(s) ==
    LET w == utf8_char_width(s[1])
    IN  /\ w = Len(s)
        /\ \A i \in 2..w : IsCont(s[i])
        /\ (s[1] = 224 => s[2] >= 160)
        /\ (s[1] = 237 => s[2] <= 159)
        /\ (s[1] = 240 => s[2] >= 144)
        /\ (s[1] = 244 => s[2] <= 143)

\* str::from_utf8(..).is_ok()
RECURSIVE is_utf8(_)
is_utf8(s) ==
    IF s = <<>> THEN TRUE
    ELSE LET w == utf8_char_width(s[1])
         IN  /\ w # 0
             /\ w <= Len(s)
             /\ ValidChar(Prefix(s, w))
             /\ is_utf8(SubSeq(s, w + 1, Len(s)))

\* The scalar value a valid encoding stands for.
DecodeChar(s) ==
    CASE Len(s) = 1 -> s[1]
      [] Len(s) = 2 -> (s[1] - 192) * 64 + (s[2] - 128)
      [] Len(s) = 3 -> (s[1] - 224) * 4096 + (s[2] - 128) * 64 + (s[3] - 128)
      [] Len(s) = 4 -> (s[1] - 240) * 262144 + (s[2] - 128) * 4096
                       + (s[3] - 128) * 64 + (s[4] - 128)

\* Buffer::read_char: "ok" with a scalar value, "none" at the end of the
\* stream (also inside a sequence), "err" for the I/O fault of bad UTF-8.
buf_read_char(r) ==
    IF AtEof(r) THEN NoneAt(r)
    ELSE LET first == r.data[r.pos + 1]
             width == utf8_char_width(first)
             left == Len(r.data) - r.pos
         IN  IF width = 1 THEN Ok(first, consume(r, 1))
             ELSE IF width = 0 THEN reader_err("I/O error", consume(r, 1))
             ELSE IF left < width THEN NoneAt(consume(r, left))
             ELSE LET bytes == SubSeq(r.data, r.pos + 1, r.pos + width)
                  IN  IF ValidChar(bytes)
                      THEN Ok(DecodeChar(bytes), consume(r, width))
                      ELSE reader_err("I/O error", consume(r, width))

(***************************************************************************)
(* Numbers.                                                                *)
(***************************************************************************)
\* Decimal magnitudes are digit sequences (values 0..9) without leading zeros.
RECURSIVE StripZeros(_)
StripZeros(d) ==
    IF Len(d) > 1 /\ Head(d) = 0 THEN StripZeros(Tail(d)) ELSE d

RECURSIVE DigitsLess(_, _)
DigitsLess(a, b) ==
    IF a = <<>> THEN FALSE
    ELSE IF Head(a) # Head(b) THEN Head(a) < Head(b)
    ELSE DigitsLess(Tail(a), Tail(b))

MagLess(a, b) ==
    IF Len(a) # Len(b) THEN Len(a) < Len(b) ELSE DigitsLess(a, b)

I64_MAX == <<9, 2, 2, 3, 3, 7, 2, 0, 3, 6, 8, 5, 4, 7, 7, 5, 8, 0, 7>>
I64_MIN_MAG == <<9, 2, 2, 3, 3, 7, 2, 0, 3, 6, 8, 5, 4, 7, 7, 5, 8, 0, 8>>
TWO_53 == <<9, 0, 0, 7, 1, 9, 9, 2, 5, 4, 7, 4, 0, 9, 9, 2>>     \* 1<<53

\* from_str::<i64>(s) for s = ["-"] digits: "ok" with the value, "none" on
\* overflow.
from_str_i64(s) ==
    LET parsed(neg, ds, mag) ==
            IF ds # <<>> /\ ~MagLess(IF neg THEN I64_MIN_MAG ELSE I64_MAX, mag)
            THEN [st |-> "ok", v |-> IntegralNumber(neg /\ mag # <<0>>, mag)]
            ELSE [st |-> "none", v |-> <<>>]
        digits(neg, ds) ==
            parsed(neg, ds, StripZeros([i \in 1..Len(ds) |-> ds[i] - 48]))
        signed(neg) == digits(neg, IF neg THEN Tail(s) ELSE s)
    IN  signed(s[1] = 45)

\* A range test that lets the two ends in: -(1<<53) <= v && v <= (1<<53).
InIntegralRange_inclusive(v) == ~MagLess(TWO_53, v.mag)

\* (-1<<53) < v && v < (1<<53)
InIntegralRange(v) == MagLess(v.mag, TWO_53)

\* [bytes, r]
digits_opt(r, bytes) ==
    LET scanned(l) == [bytes |-> bytes \o l.bytes, r |-> l.r]
    IN  scanned(loop_with_buffer(r, "digits", NoByte))

\* The tail of number_no_peek: from_str on the accumulated text.
number_from_text(bytes, try_integral, r) ==
    LET parsed(i) ==
            IF try_integral /\ i.st = "ok" /\ InIntegralRange(i.v)
            THEN Ok(i.v, r)
            ELSE Ok(Number(bytes), r)
    IN  parsed(from_str_i64(bytes))

\* The digits of an exponent, after its mark and sign.
number_exp_digits(d) == number_from_text(d.bytes, FALSE, d.r)

\* An exponent that may have no digits.
number_exp_signed_or_bare(b2, r2) ==
    IF IsDigit(peek(r2))
    THEN number_exp_digits(digits_opt(consume(r2, 1), Append(b2, peek(r2))))
    ELSE number_exp_digits([bytes |-> b2, r |-> r2])

number_exp_signed(b2, r2) ==
    IF IsDigit(peek(r2))
    THEN number_exp_digits(digits_opt(consume(r2, 1), Append(b2, peek(r2))))
    ELSE reader_err("a number has an incomplete exponent part", r2)

number_exp_marked(b1, r1) ==
    number_exp_signed(
        IF peek(r1) = 45 \/ peek(r1) = 43 THEN Append(b1, peek(r1)) ELSE b1,
        IF peek(r1) = 45 \/ peek(r1) = 43 THEN consume(r1, 1) ELSE r1)

\* `[ exp ]` and the rest.
number_exp(bytes, try_integral, r) ==
    IF peek(r) = 101 \/ peek(r) = 69
    THEN number_exp_marked(Append(bytes, peek(r)), consume(r, 1))
    ELSE number_from_text(bytes, try_integral, r)

number_frac_digits(d) == number_exp(d.bytes, FALSE, d.r)

number_frac_pointed(bytes, r1) ==
    IF IsDigit(peek(r1))
    THEN number_frac_digits(digits_opt(consume(r1, 1), bytes \o <<46, peek(r1)>>))
    ELSE reader_err("a number cannot have a trailing decimal point", r1)

\* `[ frac ]` and the rest.
number_frac(bytes, r) ==
    IF peek(r) = 46
    THEN number_frac_pointed(bytes, consume(r, 1))
    ELSE number_exp(bytes, TRUE, r)

number_int_digits(d) == number_frac(d.bytes, d.r)

\* number_no_peek after the initial byte has been consumed.
number_int(r1, initial) ==
    IF initial = 48 /\ peek(r1) # 46 /\ peek(r1) # 101 /\ peek(r1) # 69
    THEN Ok(IntegralNumber(FALSE, <<0>>), r1)
    ELSE IF initial = 45
    THEN IF IsDigit(peek(r1))
         THEN number_int_digits(digits_opt(consume(r1, 1), <<initial, peek(r1)>>))
         ELSE reader_err("expected a number, got '-'", r1)
    ELSE number_int_digits(digits_opt(r1, <<initial>>))

number_no_peek(r, initial) ==
    IF peek(r) # initial THEN assert_failed(r)
    ELSE number_int(consume(r, 1), initial)

(***************************************************************************)
(* Strings.  Causes are the source's texts with the formatted parts left   *)
(* out and its backquotes written as apostrophes.                          *)
(***************************************************************************)
HexDigit(b) ==
    IF In(b, 48, 57) THEN b - 48
    ELSE IF In(b, 97, 102) THEN b - 97 + 10
    ELSE IF In(b, 65, 70) THEN b - 65 + 10
    ELSE NoByte

\* The closure read_hex_digit, called four times: "ok" with the u16.
RECURSIVE read_hex_digits(_, _, _)
read_hex_digits(r, n, acc) ==
    IF n = 0 THEN Ok(acc, r)
    ELSE LET digit(b) ==
                 IF b.st = "none" THEN reader_err("incomplete escape sequence", b.r)
                 ELSE IF HexDigit(b.v) = NoByte
                 THEN reader_err("invalid hexadecimal digits after '\\u'", b.r)
                 ELSE read_hex_digits(b.r, n - 1, acc * 16 + HexDigit(b.v))
         IN  digit(buf_read_byte(r))

\* "ok" with the u16 code unit.
escaped_minus_escape(r) ==
    LET escape(b) ==
            IF b.st = "none" THEN reader_err("incomplete escape sequence", b.r)
            ELSE CASE b.v = 39 -> Ok(39, b.r)
                   [] b.v = 34 -> Ok(34, b.r)
                   [] b.v = 92 -> Ok(92, b.r)
                   [] b.v = 47 -> Ok(47, b.r)
                   [] b.v = 98 -> Ok(8, b.r)
                   [] b.v = 102 -> Ok(12, b.r)
                   [] b.v = 110 -> Ok(10, b.r)
                   [] b.v = 114 -> Ok(13, b.r)
                   [] b.v = 116 -> Ok(9, b.r)
                   [] b.v = 117 -> read_hex_digits(b.r, 4, 0)
                   [] OTHER -> reader_err("unknown escape sequence", b.r)
    IN  escape(buf_read_byte(r))

\* a | b on non-negative integers.
RECURSIVE BitOr(_, _)
BitOr(a, b) ==
    IF a = 0 THEN b
    ELSE IF b = 0 THEN a
    ELSE 2 * BitOr(a \div 2, b \div 2) + (IF a % 2 = 1 \/ b % 2 = 1 THEN 1 ELSE 0)

\* A pairing that leaves out the 0x10000 offset.
surrogate_pair_no_offset(first, second) ==
    BitOr((first - 55296) * 1024, second - 56320)

\* 0x10000 + (((first - 0xd800) as u32 << 10) | ((second - 0xdc00) as u32))
surrogate_pair(first, second) ==
    65536 + BitOr((first - 55296) * 1024, second - 56320)

\* The second escape of a surrogate pair whose first code unit is e.v.
escaped_char_second(e, e2) ==
    IF e2.st = "err" THEN e2
    ELSE IF ~(56320 <= e2.v /\ e2.v <= 57343)
    THEN reader_err("lower surrogate is not followed with an escaped upper surrogate (got another escape instead)", e2.r)
    ELSE Ok(surrogate_pair(e.v, e2.v), e2.r)

\* The match on the escape e just read.
escaped_char_first(e) ==
    IF e.st = "err" THEN e
    ELSE IF In(e.v, 55296, 56319)
    THEN IF peek(e.r) # 92
         THEN reader_err("lower surrogate is not followed with an escaped upper surrogate", e.r)
         ELSE escaped_char_second(e, escaped_minus_escape(consume(e.r, 1)))
    ELSE IF In(e.v, 56320, 57343)
    THEN reader_err("upper surrogate cannot be used independently", e.r)
    ELSE e

\* An escape after its backslash: "ok" with the scalar value `ch`.
escaped_char(r) == escaped_char_first(escaped_minus_escape(r))

\* "ok" with the bytes of the string.
RECURSIVE quoted_chars_from(_, _, _)

\* After an escape c: its character is appended and the loop goes on.
quoted_chars_escaped(c, quote, bytes2) ==
    IF c.st = "err" THEN c
    ELSE quoted_chars_from(c.r, quote, bytes2 \o encode_utf8_raw(c.v))

\* One round of the loop, after its scan l.
quoted_chars_scanned(l, quote, bytes2) ==
    IF ~l.found THEN reader_err("incomplete string literal", l.r)
    ELSE IF l.flag THEN quoted_chars_escaped(escaped_char(l.r), quote, bytes2)
    ELSE IF is_utf8(bytes2) THEN Ok(bytes2, l.r)
    ELSE reader_err("invalid UTF-8 sequence in a quoted string", l.r)

quoted_chars_extended(l, quote, bytes) ==
    quoted_chars_scanned(l, quote, bytes \o l.bytes)

quoted_chars_from(r, quote, bytes) ==
    quoted_chars_extended(loop_with_buffer(r, "quoted", quote), quote, bytes)

quoted_chars_then_quote(r, quote) == quoted_chars_from(r, quote, <<>>)

string_no_peek(r, quote) == quoted_chars_then_quote(consume(r, 1), quote)

\* "ok" with the fragments.
RECURSIVE verbatim_string_from(_, _)

\* After the whitespace that follows a line: another fragment, or the end.
verbatim_string_skipped(frags2, w) ==
    IF peek(w.r) # 124 THEN Ok(frags2, w.r)
    ELSE verbatim_string_from(w.r, frags2)

\* After the line n of a fragment has been read.
verbatim_string_line(n, frags) ==
    IF ~is_utf8(n.bytes)
    THEN reader_err("invalid UTF-8 sequence in a verbatim string", n.r)
    ELSE verbatim_string_skipped(Append(frags, n.bytes),
                                 skip_ws(consume(n.r, 1)))   \* either 0x0a or 0x0d

verbatim_string_from(r, frags) ==
    verbatim_string_line(non_newline_chars(consume(r, 1)), frags)

verbatim_string_no_peek(r) ==
    IF peek(r) # 124 THEN assert_failed(r)
    ELSE verbatim_string_from(r, <<>>)

\* A connect that puts nothing between the fragments.
RECURSIVE connect_bare(_)
connect_bare(frags) ==
    IF Len(frags) = 0 THEN <<>> ELSE frags[1] \o connect_bare(Tail(frags))

\* frags.connect("\n")
RECURSIVE connect(_)
connect(frags) ==
    IF Len(frags) = 0 THEN <<>>
    ELSE IF Len(frags) = 1 THEN frags[1]
    ELSE frags[1] \o <<10>> \o connect(Tail(frags))

\* The while loop of bare_string_no_peek.
RECURSIVE bare_string_rest(_, _)
bare_string_rest(r, s) ==
    IF peek(r) # NoByte /\ is_id_end_byte(peek(r))
    THEN LET char(c) ==
                 IF c.st = "err" THEN c
                 ELSE IF c.st = "none"
                 THEN reader_err("expected a bare string, got the end of file", c.r)
                 ELSE IF is_id_end(c.v)
                 THEN bare_string_rest(c.r, s \o encode_utf8_raw(c.v))
                 ELSE reader_err("expected a bare string, got an invalid character", c.r)
         IN  char(buf_read_char(r))
    ELSE Ok(s, r)

\* A bare string that is empty when its first character is not an
\* identifier start.
bare_string_no_peek_or_empty(r) ==
    LET char(c) ==
            IF c.st = "ok" /\ is_id_start(c.v)
            THEN bare_string_rest(c.r, encode_utf8_raw(c.v))
            ELSE Ok(<<>>, r)
    IN  char(buf_read_char(r))

bare_string_no_peek(r) ==
    LET char(c) ==
            IF c.st = "err" THEN c
            ELSE IF c.st = "none"
            THEN reader_err("expected a bare string, got the end of file", c.r)
            ELSE IF is_id_start(c.v)
            THEN bare_string_rest(c.r, encode_utf8_raw(c.v))
            ELSE reader_err("expected a bare string, got an invalid character", c.r)
    IN  IF ~(peek(r) # NoByte /\ is_id_start_byte(peek(r))) THEN assert_failed(r)
        ELSE char(buf_read_char(r))

\* A name that takes whatever is not a quote for a bare string.
name_opt_unchecked(r) ==
    IF peek(r) = 34 \/ peek(r) = 39 THEN string_no_peek(r, peek(r))
    ELSE IF peek(r) # NoByte THEN bare_string_no_peek(r)
    ELSE NoneAt(r)

\* "ok" with the key's text, "none" when no name starts here.
name_opt(r) ==
    IF peek(r) = 34 \/ peek(r) = 39 THEN string_no_peek(r, peek(r))
    ELSE IF peek(r) # NoByte /\ is_id_start_byte(peek(r)) THEN bare_string_no_peek(r)
    ELSE NoneAt(r)

(***************************************************************************)
(* The object map (TreeMap<Key, Atom>): a sequence of entries [k, v] kept  *)
(* sorted by key, the keys unique.                                         *)
(***************************************************************************)
EmptyMap == <<>>

\* An insert that keeps the value a key already has.
insert_keep_first(items, key, value) ==
    IF \E i \in 1..Len(items) : items[i].k = key
    THEN items
    ELSE LET n == Cardinality({i \in 1..Len(items) : StrLess(items[i].k, key)})
         IN  Prefix(items, n) \o <<[k |-> key, v |-> value]>>
             \o SubSeq(items, n + 1, Len(items))

\* TreeMap::insert: the value of an equal key is replaced.
insert(items, key, value) ==
    IF \E i \in 1..Len(items) : items[i].k = key
    THEN [i \in 1..Len(items) |->
            IF items[i].k = key THEN [k |-> key, v |-> value] ELSE items[i]]
    ELSE LET n == Cardinality({i \in 1..Len(items) : StrLess(items[i].k, key)})
         IN  Prefix(items, n) \o <<[k |-> key, v |-> value]>>
             \o SubSeq(items, n + 1, Len(items))

(***************************************************************************)
(* The recursive-descent productions.                                      *)
(***************************************************************************)
RECURSIVE value_opt(_)
RECURSIVE value(_)
RECURSIVE member_opt(_)
RECURSIVE object_items_from(_, _)
RECURSIVE object_items_opt(_)
RECURSIVE object_no_peek(_)
RECURSIVE array_items_from(_, _)
RECURSIVE array_items_opt(_)
RECURSIVE array_no_peek(_)

\* "ok" with the value, "err" with "expected value" when there is none.
value(r) ==
    LET some(v) == IF v.st = "none" THEN reader_err("expected value", v.r) ELSE v
    IN  some(value_opt(r))

member_opt_valued(name, v) ==
    IF v.st = "err" THEN v ELSE Ok(<<name.v, v.v>>, v.r)

member_opt_separator(name, w) ==
    IF peek(w.r) = 58 \/ peek(w.r) = 61
    THEN member_opt_valued(name, value(skip_ws(consume(w.r, 1)).r))
    ELSE reader_err("expected ':' or '='", w.r)

member_opt_named(name) ==
    IF name.st # "ok" THEN name ELSE member_opt_separator(name, skip_ws(name.r))

\* "ok" with <<name, value>>, "none" when no member starts here.
member_opt(r) == member_opt_named(name_opt(r))

\* A member m has been looked for: it is inserted and the loop goes on.
object_items_member(m, items) ==
    IF m.st = "err" THEN m
    ELSE IF m.st = "none" THEN Ok(items, m.r)
    ELSE object_items_from(m.r, insert(items, m.v[1], m.v[2]))

object_items_separated(sep, items) ==
    IF sep.st = "none" THEN Ok(items, sep.r)
    ELSE object_items_member(member_opt(sep.r), items)

\* The loop of object_items_opt.
object_items_from(r, items) ==
    object_items_separated(skip_value_separator_opt(r), items)

object_items_opt(r) == object_items_member(member_opt(r), EmptyMap)

object_close(items) ==
    IF items.st = "err" THEN items
    ELSE IF peek(items.r) # 125 THEN reader_err("expected '}'", items.r)
    ELSE Ok(items.v, consume(items.r, 1))

object_no_peek(r) ==
    IF peek(r) # 123 THEN assert_failed(r)
    ELSE object_close(object_items_opt(skip_ws(consume(r, 1)).r))

\* An element v has been looked for: it is pushed and the loop goes on.
array_items_element(v, elements) ==
    IF v.st = "err" THEN v
    ELSE IF v.st = "none" THEN Ok(elements, v.r)
    ELSE array_items_from(v.r, Append(elements, v.v))

array_items_separated(sep, elements) ==
    IF sep.st = "none" THEN Ok(elements, sep.r)
    ELSE array_items_element(value_opt(sep.r), elements)

\* The loop of array_items_opt.
array_items_from(r, elements) ==
    array_items_separated(skip_value_separator_opt(r), elements)

array_items_opt(r) == array_items_element(value_opt(r), <<>>)

array_close(elements) ==
    IF elements.st = "err" THEN elements
    ELSE IF peek(elements.r) # 93 THEN reader_err("expected ']'", elements.r)
    ELSE Ok(elements.v, consume(elements.r, 1))

array_no_peek(r) ==
    IF peek(r) # 91 THEN assert_failed(r)
    ELSE array_close(array_items_opt(skip_ws(consume(r, 1)).r))

\* A literal whose mismatch is taken for "no value starts here".
literal_or_none(r, token, atom, cause) ==
    LET matched(t) == IF t.st = "ok" THEN Ok(atom, t.r) ELSE NoneAt(t.r)
    IN  matched(fixed_token_opt(r, token))

\* A literal: the token must match, or the parse fails.
literal(r, token, atom, cause) ==
    LET matched(t) == IF t.st = "ok" THEN Ok(atom, t.r) ELSE reader_err(cause, t.r)
    IN  matched(fixed_token_opt(r, token))

\* Result::map with the constructor of an Atom.
map(res, ctor) ==
    IF res.st # "ok" THEN res
    ELSE CASE ctor = "Object" -> Ok(Object(res.v), res.r)
           [] ctor = "List" -> Ok(List(res.v), res.r)
           [] ctor = "OwnedString" -> Ok(OwnedString(res.v), res.r)
           [] ctor = "connect" -> Ok(OwnedString(connect(res.v)), res.r)

value_opt_peeked(r, b) ==
    CASE b = 102 -> literal(r, <<102, 97, 108, 115, 101>>, False, "expected false")
      [] b = 110 -> literal(r, <<110, 117, 108, 108>>, Null, "expected null")
      [] b = 116 -> literal(r, <<116, 114, 117, 101>>, True, "expected true")
      [] b = 123 -> map(object_no_peek(r), "Object")
      [] b = 91 -> map(array_no_peek(r), "List")
      [] b = 45 \/ IsDigit(b) -> number_no_peek(r, b)
      [] b = 34 \/ b = 39 -> map(string_no_peek(r, b), "OwnedString")
      [] b = 124 -> map(verbatim_string_no_peek(r), "connect")
      [] OTHER -> NoneAt(r)

\* "ok" with the value, "none" when no value starts here.
value_opt(r) == value_opt_peeked(r, peek(r))

\* A document that must open with a brace or a bracket.
document_peeked_explicit(w, b) ==
    CASE b = 123 -> map(object_no_peek(w.r), "Object")
      [] b = 91 -> map(array_no_peek(w.r), "List")
      [] OTHER -> reader_err("expected document", w.r)

document_peeked(w, b) ==
    CASE b = 123 -> map(object_no_peek(w.r), "Object")
      [] b = 91 -> map(array_no_peek(w.r), "List")
      [] b = NoByte -> reader_err("expected document", w.r)
      [] OTHER -> map(object_items_opt(skip_ws(w.r).r), "Object")

document_skipped(w) == document_peeked(w, peek(w.r))

document(r) == document_skipped(skip_ws(r))

\* What an entry point returns: Ok(value) or Err(cause); pos is where the
\* cursor of the source was left.
Returned(res) ==
    IF res.st = "ok" THEN [ok |-> TRUE, v |-> res.v, cause |-> "", pos |-> res.r.pos]
    ELSE [ok |-> FALSE, v |-> <<>>, cause |-> res.cause, pos |-> res.r.pos]

\* skip_ws, eof and Ok(ret), the common end of the entry points.
finish(ret) ==
    IF ret.st = "err" THEN ret
    ELSE LET ended(e) == IF e.st = "err" THEN e ELSE Ok(ret.v, e.r)
         IN  ended(eof(skip_ws(ret.r).r))

parse_document(r) == Returned(finish(document(r)))

parse_value(r) == Returned(finish(value(skip_ws(r).r)))

parse_document_from_buf(buf) == parse_document(NewReader(buf, Len(buf) + 1))

parse_value_from_buf(buf) == parse_value(NewReader(buf, Len(buf) + 1))

(***************************************************************************)
(* The state machine: an input text is put together from pieces, a         *)
(* buffered source is opened over it, and one entry point is called.       *)
(***************************************************************************)
Input == Flatten(toks)

\* tokens are the tokens of the text, last the index of the token that ends
\* the last item of a collection of it (0 when it has none).
NoBase == [tokens |-> <<>>, last |-> 0]

NoResult == [ok |-> FALSE, v |-> <<>>, cause |-> "not called", pos |-> 0]

\* No function of util::io is running.  at is the statement the function is
\* at; min, read, zeroes and buf are the parameter, the locals and the
\* buffer of read_at_least (buf as the bytes written so far, of len bytes);
\* start, width and chars the locals and the buffer of read_char.
IoIdle == [at |-> "idle", min |-> 0, len |-> 0, read |-> 0, zeroes |-> 0,
           buf |-> <<>>, start |-> 0, width |-> 0, chars |-> <<>>]

\* All sequences of at most n elements of S.
RECURSIVE SeqsUpTo(_, _)
SeqsUpTo(S, n) ==
    IF n = 0 THEN {<<>>}
    ELSE LET shorter == SeqsUpTo(S, n - 1)
         IN  shorter \cup {Append(q, x) : q \in {t \in shorter : Len(t) = n - 1}, x \in S}

\* The source hands out one byte at a time, or everything at once.
WindowSizes(text) == {1, Len(text) + 1}

InitOver(Texts) ==
    /\ tree = NoAtom
    /\ jsonlike = NoAtom
    /\ base = NoBase
    /\ toks \in Texts
    /\ window \in WindowSizes(Flatten(toks))
    /\ pc = "start"
    /\ entry = "none"
    /\ result = NoResult
    /\ helper = "idle"
    /\ pending = <<>>
    /\ zeroes = 0
    /\ io = IoIdle

ParseValue ==
    /\ pc = "start"
    /\ pc' = "done"
    /\ entry' = "value"
    /\ result' = parse_value(NewReader(Input, window))
    /\ UNCHANGED <<tree, jsonlike, base, toks, window, helper, pending, zeroes, io>>

ParseDocument ==
    /\ pc = "start"
    /\ pc' = "done"
    /\ entry' = "document"
    /\ result' = parse_document(NewReader(Input, window))
    /\ UNCHANGED <<tree, jsonlike, base, toks, window, helper, pending, zeroes, io>>

Next == ParseValue \/ ParseDocument

(***************************************************************************)
(* Specification Spec: texts of at most MaxToks pieces, each one byte of   *)
(* the structural alphabet.                                                *)
(***************************************************************************)
MaxToks == 4

\* 1 a : LF SP [ ] { } #
Alphabet == {<<49>>, <<97>>, <<58>>, <<10>>, <<32>>, <<91>>, <<93>>, <<123>>, <<125>>, <<35>>}

Init == InitOver(SeqsUpTo(Alphabet, MaxToks))

Spec == Init /\ [][Next]_vars

\* The reader the entry point was given.
Reader0 == NewReader(Input, window)

Done(e) == pc = "done" /\ entry = e

\* Whether both calls failed, or both returned the same value.
SameOutcome(a, b) == a.ok = b.ok /\ (a.ok => a.v = b.v)

\* C1: when the document (or value) itself has been parsed, the entry point
\* returns it if nothing but whitespace and comments is left, and otherwise
\* fails with "expected end of file" and returns no value; a value is only
\* ever returned with the source exhausted.
C1_TrailingBytesRejected ==
    pc = "done" =>
        /\ LET parsed(ret, after) ==
                    ret.st = "ok" =>
                        IF AtEof(after)
                        THEN result.ok /\ result.v = ret.v
                        ELSE ~result.ok /\ result.v = <<>>
                             /\ result.cause = "expected end of file"
                returned(ret) == parsed(ret, skip_ws(ret.r).r)
            IN  returned(IF entry = "document" THEN document(Reader0)
                         ELSE value(skip_ws(Reader0).r))
        /\ result.ok => result.pos >= Len(Input)

C1_Witness ==
    /\ pc = "done"
    /\ result.cause = "expected end of file"
    /\ Len(toks) >= 3
    /\ toks[1] = <<123>>

(***************************************************************************)
(* Specification NumSpec: the text is a number <<sign, int, frac, exp>>,   *)
(* its integer part a short digit string or a long one near 2^53 or 2^63.  *)
(***************************************************************************)
MaxDigits == 3

\* The ASCII text of a digit sequence.
Digits(d) == [i \in 1..Len(d) |-> d[i] + 48]

\* 2^53 - 1: the only long integer part below whose magnitude is under 2^53.
BelowTwo53 == {Digits(<<9, 0, 0, 7, 1, 9, 9, 2, 5, 4, 7, 4, 0, 9, 9, 1>>)}

LongInts ==
    BelowTwo53 \cup
    {Digits(<<9, 0, 0, 7, 1, 9, 9, 2, 5, 4, 7, 4, 0, 9, 9, 2>>),                \* 2^53
     Digits(<<9, 0, 0, 7, 1, 9, 9, 2, 5, 4, 7, 4, 0, 9, 9, 3>>),                \* 2^53 + 1
     Digits(<<7, 2, 0, 5, 7, 5, 9, 4, 0, 3, 7, 9, 2, 7, 9, 3, 6>>),             \* 2^56
     Digits(<<9, 2, 2, 3, 3, 7, 2, 0, 3, 6, 8, 5, 4, 7, 7, 5, 8, 0, 7>>),       \* 2^63 - 1
     Digits(<<9, 2, 2, 3, 3, 7, 2, 0, 3, 6, 8, 5, 4, 7, 7, 5, 8, 0, 8>>),       \* 2^63
     Digits(<<9, 2, 2, 3, 3, 7, 2, 0, 3, 6, 8, 5, 4, 7, 7, 5, 8, 0, 9>>),       \* 2^63 + 1
     Digits(<<1, 0, 0, 0, 0, 0, 0, 0, 0, 0, 0, 0, 0, 0, 0, 0, 0, 0, 0, 0>>)}    \* 10^19

\* Digit strings over 0, 1 and 9, zero-padded ones included.
ShortInts == SeqsUpTo({48, 49, 57}, MaxDigits) \ {<<>>}

Signs == {<<>>, <<45>>}                                     \* none, -
Fracs == {<<>>, <<46, 53>>, <<46, 48>>}                     \* none, .5, .0
Exps == {<<>>, <<101, 51>>, <<69, 45, 50>>, <<101, 43, 48>>}   \* none, e3, E-2, e+0

NumInit ==
    InitOver({<<s, i, f, e>> : s \in Signs, i \in ShortInts \cup LongInts,
                               f \in Fracs, e \in Exps})

NumSpec == NumInit /\ [][Next]_vars

\* `int = zero / ( digit1-9 *DIGIT )`
ValidInt(i) == i = <<48>> \/ i[1] # 48

\* Whether the magnitude of a valid integer part is below 2^53 (a number of
\* 16 digits): it has at most 15 digits, or it is 2^53 - 1.
Small(i) == Len(i) <= 15 \/ i \in BelowTwo53

\* C2: a valid number literal given to number_no_peek (through parse_value)
\* is returned as the integer of its digits if and only if it has no
\* fraction, no exponent and a magnitude below 2^53 (which every 64-bit
\* parse failure exceeds); in every other case it is returned as the float
\* of its whole text.  The integer of `-0` is 0.
C2_IntegralIffSmallInteger ==
    (Done("value") /\ ValidInt(toks[2])) =>
        /\ result.ok
        /\ result.v =
               IF toks[3] = <<>> /\ toks[4] = <<>> /\ Small(toks[2])
               THEN IntegralNumber(toks[1] # <<>> /\ toks[2] # <<48>>,
                                   [i \in 1..Len(toks[2]) |-> toks[2][i] - 48])
               ELSE Number(Input)

\* -9007199254740992 has been parsed, as a float.
C2_Witness ==
    /\ Done("value")
    /\ toks = <<<<45>>, Digits(<<9, 0, 0, 7, 1, 9, 9, 2, 5, 4, 7, 4, 0, 9, 9, 2>>),
                <<>>, <<>>>>
    /\ result.ok
    /\ result.v.tag = "F64"

\* C3: parse_value fails on every number whose integer part is a 0 followed
\* by another digit, with or without a leading minus.
C3_ZeroPaddedRejected ==
    (Done("value") /\ Len(toks[2]) >= 2 /\ toks[2][1] = 48) => ~result.ok

(***************************************************************************)
(* Specification SepSpec: an array or an object of two items,              *)
(* <<open, key, item, gap, key, item, close>>, the gap made of whitespace  *)
(* with at least one line terminator and no comma.                         *)
(***************************************************************************)
MaxGap == 2

\* null  1  -2.5  "s"  'q'  |v  []  {}  [1]  {k:1}
FirstItems ==
    {<<110, 117, 108, 108>>, <<49>>, <<45, 50, 46, 53>>, <<34, 115, 34>>,
     <<39, 113, 39>>, <<124, 118>>, <<91, 93>>, <<123, 125>>, <<91, 49, 93>>,
     <<123, 107, 58, 49, 125>>}

\* 2  "t"  true
SecondItems == {<<50>>, <<34, 116, 34>>, <<116, 114, 117, 101>>}

\* Spaces, line feeds and carriage returns, at least one a line terminator.
Gaps ==
    {g \in SeqsUpTo({32, 10, 13}, MaxGap) : \E i \in 1..Len(g) : IsNewline(g[i])}

\* [ item gap item ]   and   { a:item gap b=item }
SepInit ==
    InitOver({<<<<91>>, <<>>, x, g, <<>>, y, <<93>>>> :
                  x \in FirstItems, g \in Gaps, y \in SecondItems}
             \cup
             {<<<<123>>, <<97, 58>>, x, g, <<98, 61>>, y, <<125>>>> :
                  x \in FirstItems, g \in Gaps, y \in SecondItems})

SepSpec == SepInit /\ [][Next]_vars

\* The collection of the two items, each item's value being what
\* parse_value gives for the item alone.
TwoItems(open, x, y) ==
    IF open = <<91>>
    THEN List(<<parse_value_from_buf(x).v, parse_value_from_buf(y).v>>)
    ELSE Object(<<[k |-> <<97>>, v |-> parse_value_from_buf(x).v],
                  [k |-> <<98>>, v |-> parse_value_from_buf(y).v]>>)

\* C4: two items of an array or of an object that are separated only by
\* whitespace with a line terminator in it are both items of the
\* collection, whatever kind of value the first item is.
C4_NewlineSeparates ==
    Done("value") =>
        /\ result.ok
        /\ result.v = TwoItems(toks[1], toks[3], toks[6])

(***************************************************************************)
(* Specification DocSpec: a document text of at most MaxDocToks pieces:    *)
(* members, separators, comments, braces and stray values.                 *)
(***************************************************************************)
MaxDocToks == 3

\* a:1  'a'=2  b:|x  LF  ,  #c  {  }  []  SP  1
DocAlphabet ==
    {<<97, 58, 49>>, <<39, 97, 39, 61, 50>>, <<98, 58, 124, 120>>, <<10>>, <<44>>,
     <<35, 99>>, <<123>>, <<125>>, <<91, 93>>, <<32>>, <<49>>}

DocInit == InitOver(SeqsUpTo(DocAlphabet, MaxDocToks))

DocSpec == DocInit /\ [][Next]_vars

\* B wrapped in braces on their own lines.
Wrapped(B) == <<123, 10>> \o B \o <<10, 125>>

\* The first byte of the text that is neither whitespace nor in a comment,
\* NoByte when there is none.
FirstSignificant(r) == peek(skip_ws(r).r)

\* The first byte of the text that is not whitespace, NoByte when there is
\* none.
FirstNonWhitespace(B) ==
    IF FirstIdx(B, Byte \ {32, 9, 10, 13}) = 0 THEN NoByte
    ELSE B[FirstIdx(B, Byte \ {32, 9, 10, 13})]

\* C5 (amended): for every text B whose first byte after whitespace and
\* comments exists and is neither a brace nor a bracket, parse_document(B)
\* and parse_document of B wrapped in braces on their own lines both fail,
\* or both return the same object.
C5_ImplicitObjectAsWrapped ==
    (Done("document") /\ FirstSignificant(Reader0) \notin {NoByte, 123, 91}) =>
        SameOutcome(result, parse_document(NewReader(Wrapped(Input), window)))

\* A text of two members on two lines has been parsed as an object.
C5_Witness ==
    /\ Done("document")
    /\ toks = <<<<97, 58, 49>>, <<10>>, <<98, 58, 124, 120>>>>
    /\ result.ok
    /\ Len(result.v.o) = 2

\* C5 as stated: the same, for every text B whose first non-whitespace byte
\* exists and is neither a brace nor a bracket (a `#` included).
C5_AsStated ==
    (Done("document") /\ FirstNonWhitespace(Input) \notin {NoByte, 123, 91}) =>
        SameOutcome(result, parse_document(NewReader(Wrapped(Input), window)))

(***************************************************************************)
(* Specification ObjSpec: an object of at most MaxMembers members,         *)
(* <<{, member, separator, ..., member, separator, }>>.                    *)
(***************************************************************************)
MaxMembers == 3

\* The member texts with the key and the value each one stands for:
\* a:1  'a'=2  "a":3  b=null
MemberTable ==
    {[text |-> <<97, 58, 49>>, key |-> <<97>>, val |-> IntegralNumber(FALSE, <<1>>)],
     [text |-> <<39, 97, 39, 61, 50>>, key |-> <<97>>, val |-> IntegralNumber(FALSE, <<2>>)],
     [text |-> <<34, 97, 34, 58, 51>>, key |-> <<97>>, val |-> IntegralNumber(FALSE, <<3>>)],
     [text |-> <<98, 61, 110, 117, 108, 108>>, key |-> <<98>>, val |-> Null]}

\* A comma, a line feed, or nothing.
Separators == {<<44>>, <<10>>, <<>>}

\* Every sequence of at most n members, each followed by a separator.
RECURSIVE MemberLists(_)
MemberLists(n) ==
    IF n = 0 THEN {<<>>}
    ELSE MemberLists(n - 1) \cup
         {l \o <<m.text, sep>> : l \in {t \in MemberLists(n - 1) : Len(t) = 2 * (n - 1)},
                                  m \in MemberTable, sep \in Separators}

ObjInit == InitOver({<<<<123>>>> \o l \o <<<<125>>>> : l \in MemberLists(MaxMembers)})

ObjSpec == ObjInit /\ [][Next]_vars

\* Where the members are in toks.
MemberAt == {i \in 2..(Len(toks) - 1) : i % 2 = 0}

MemberOf(tok) == CHOOSE m \in MemberTable : m.text = tok

MemberKeys == {MemberOf(toks[i]).key : i \in MemberAt}

\* The last member in input order that has the key.
LastWith(key) ==
    CHOOSE i \in MemberAt :
        /\ MemberOf(toks[i]).key = key
        /\ \A j \in MemberAt : MemberOf(toks[j]).key = key => j <= i

\* C6: the object of a successfully parsed member list has exactly one
\* entry per distinct key content, quoted or bare, holding the value of the
\* last member that has the key; its size is the number of distinct keys.
C6_LastMemberWins ==
    (pc = "done" /\ result.ok) =>
        /\ result.v.tag = "Object"
        /\ Len(result.v.o) = Cardinality(MemberKeys)
        /\ {result.v.o[i] : i \in 1..Len(result.v.o)}
               = {[k |-> key, v |-> MemberOf(toks[LastWith(key)]).val] : key \in MemberKeys}

\* {a:1,b=null LF 'a'=2} has been parsed: three members, two entries.
C6_Witness ==
    /\ pc = "done"
    /\ result.ok
    /\ toks = <<<<123>>, <<97, 58, 49>>, <<44>>, <<98, 61, 110, 117, 108, 108>>, <<10>>,
                <<39, 97, 39, 61, 50>>, <<>>, <<125>>>>
    /\ Len(result.v.o) = 2

(***************************************************************************)
(* Specification StrSpec: a quoted string of at most MaxPieces pieces,     *)
(* <<quote, piece, ..., piece, quote>>, each piece an escape or a raw      *)
(* character.                                                              *)
(***************************************************************************)
MaxPieces == 3

\* The pieces with what each one stands for: a high surrogate unit ("hi"),
\* a low surrogate unit ("lo"), or a character ("ch").
\* \uD800 \uDBFF \ud83d   \uDC00 \uDFFF \uDE00   \u0041 \n a \uD7FF \uE000
PieceTable ==
    {[text |-> <<92, 117, 68, 56, 48, 48>>, kind |-> "hi", code |-> 55296],
     [text |-> <<92, 117, 68, 66, 70, 70>>, kind |-> "hi", code |-> 56319],
     [text |-> <<92, 117, 100, 56, 51, 100>>, kind |-> "hi", code |-> 55357],
     [text |-> <<92, 117, 68, 67, 48, 48>>, kind |-> "lo", code |-> 56320],
     [text |-> <<92, 117, 68, 70, 70, 70>>, kind |-> "lo", code |-> 57343],
     [text |-> <<92, 117, 68, 69, 48, 48>>, kind |-> "lo", code |-> 56832],
     [text |-> <<92, 117, 48, 48, 52, 49>>, kind |-> "ch", code |-> 65],
     [text |-> <<92, 110>>, kind |-> "ch", code |-> 10],
     [text |-> <<97>>, kind |-> "ch", code |-> 97],
     [text |-> <<92, 117, 68, 55, 70, 70>>, kind |-> "ch", code |-> 55295],
     [text |-> <<92, 117, 69, 48, 48, 48>>, kind |-> "ch", code |-> 57344]}

Quotes == {<<34>>, <<39>>}

StrInit ==
    InitOver({<<q>> \o ps \o <<q>> :
                  q \in Quotes,
                  ps \in SeqsUpTo({p.text : p \in PieceTable}, MaxPieces)})

StrSpec == StrInit /\ [][Next]_vars

PieceOf(tok) == CHOOSE p \in PieceTable : p.text = tok

\* The scalar value of a surrogate pair, by the UTF-16 formula.
PairValue(hi, lo) == 65536 + (hi - 55296) * 1024 + (lo - 56320)

\* What the pieces ps stand for: ok with the UTF-8 bytes of their scalar
\* values when every surrogate unit is half of a high-low pair, not ok when
\* a surrogate unit is left over.
RECURSIVE Unescaped(_)
Unescaped(ps) ==
    IF ps = <<>> THEN [ok |-> TRUE, bytes |-> <<>>]
    ELSE IF PieceOf(ps[1]).kind = "ch"
    THEN [ok |-> Unescaped(Tail(ps)).ok,
          bytes |-> encode_utf8_raw(PieceOf(ps[1]).code) \o Unescaped(Tail(ps)).bytes]
    ELSE IF PieceOf(ps[1]).kind = "hi" /\ Len(ps) >= 2 /\ PieceOf(ps[2]).kind = "lo"
    THEN [ok |-> Unescaped(SubSeq(ps, 3, Len(ps))).ok,
          bytes |-> encode_utf8_raw(PairValue(PieceOf(ps[1]).code, PieceOf(ps[2]).code))
                    \o Unescaped(SubSeq(ps, 3, Len(ps))).bytes]
    ELSE [ok |-> FALSE, bytes |-> <<>>]

Pieces == SubSeq(toks, 2, Len(toks) - 1)

\* C7: in a quoted string a high surrogate escape immediately followed by a
\* low surrogate escape stands for the one scalar value of the UTF-16
\* formula, which lies in 0x10000..0x10FFFF; any other surrogate unit (a
\* high one followed by the end of the string, a raw character, another
\* escape or another high one, or a low one that is not the second half of
\* a pair) makes the parse fail.
C7_SurrogatePairs ==
    Done("value") =>
        /\ result.ok = Unescaped(Pieces).ok
        /\ result.ok => result.v = OwnedString(Unescaped(Pieces).bytes)
        /\ \A i \in 1..(Len(Pieces) - 1) :
               (PieceOf(Pieces[i]).kind = "hi" /\ PieceOf(Pieces[i + 1]).kind = "lo") =>
                   /\ PairValue(PieceOf(Pieces[i]).code, PieceOf(Pieces[i + 1]).code) >= 65536
                   /\ PairValue(PieceOf(Pieces[i]).code, PieceOf(Pieces[i + 1]).code) <= 1114111

\* "\ud83d\uDE00" has been parsed as the four bytes of U+1F600.
C7_Witness ==
    /\ Done("value")
    /\ toks = <<<<34>>, <<92, 117, 100, 56, 51, 100>>, <<92, 117, 68, 69, 48, 48>>, <<34>>>>
    /\ result.ok
    /\ result.v = OwnedString(<<240, 159, 152, 128>>)

(***************************************************************************)
(* Specification LitSpec: the text <<head, tail>> is the first bytes of    *)
(* false, null or true followed by at most MaxTail other bytes.            *)
(***************************************************************************)
MaxTail == 2

\* The literals with the atom and the error each one stands for.
LiteralTable ==
    {[text |-> <<102, 97, 108, 115, 101>>, atom |-> False, cause |-> "expected false"],
     [text |-> <<110, 117, 108, 108>>, atom |-> Null, cause |-> "expected null"],
     [text |-> <<116, 114, 117, 101>>, atom |-> True, cause |-> "expected true"]}

LiteralHeads ==
    UNION {{Prefix(l.text, n) : n \in 1..Len(l.text)} : l \in LiteralTable}

\* e  l  y  SP  LF
LitInit ==
    InitOver({<<h, t>> : h \in LiteralHeads,
                         t \in SeqsUpTo({101, 108, 121, 32, 10}, MaxTail)})

LitSpec == LitInit /\ [][Next]_vars

\* The literal that starts with the first byte of the text.
LiteralOf(text) == CHOOSE l \in LiteralTable : l.text[1] = text[1]

StartsWith(text, token) ==
    Len(text) >= Len(token) /\ Prefix(text, Len(token)) = token

\* Whether everything after the first n bytes of the text is whitespace.
BlankAfter(text, n) == \A i \in (n + 1)..Len(text) : text[i] \in {32, 9, 10, 13}

\* C8: when the value starts with f, n or t, it is parsed only if the text
\* starts with exactly false, null or true; any other continuation, the end
\* of the input included, is the error "expected false", "expected null"
\* or "expected true"; and a literal followed by more text, such as
\* falsey, is an error of parse_value.
C8_ExactLiteral ==
    Done("value") =>
        IF StartsWith(Input, LiteralOf(Input).text)
        THEN IF BlankAfter(Input, Len(LiteralOf(Input).text))
             THEN result.ok /\ result.v = LiteralOf(Input).atom
             ELSE ~result.ok /\ result.cause = "expected end of file"
        ELSE ~result.ok /\ result.cause = LiteralOf(Input).cause

\* "fals" followed by "y" has been refused with "expected false".
C8_Witness ==
    /\ Done("value")
    /\ toks = <<<<102, 97, 108, 115>>, <<121>>>>
    /\ ~result.ok
    /\ result.cause = "expected false"

(***************************************************************************)
(* Specification VerbSpec: a verbatim string of at most MaxFrags           *)
(* fragments, <<|, fragment, line terminator, gap, ...>>; the last         *)
(* fragment may end with the input.                                        *)
(***************************************************************************)
MaxFrags == 3

\* (empty)  a  b#
FragTexts == {<<>>, <<97>>, <<98, 35>>}

LineEnds == {<<10>>, <<13>>}

\* Nothing, or a blank line, an indented comment with a `|` in it and a tab.
FragGaps == {<<>>, <<10, 32, 35, 124, 99, 10, 9>>}

\* Every text of n fragments, each one followed by a line terminator and a
\* gap.
RECURSIVE FragLines(_)
FragLines(n) ==
    IF n = 0 THEN {<<>>}
    ELSE {l \o <<<<124>>, f, e, g>> :
              l \in FragLines(n - 1), f \in FragTexts, e \in LineEnds, g \in FragGaps}

VerbInit ==
    InitOver(UNION {FragLines(n) : n \in 1..MaxFrags}
             \cup
             UNION {{l \o <<<<124>>, f, <<>>, <<>>>> : l \in FragLines(n - 1), f \in FragTexts} :
                       n \in 1..MaxFrags})

VerbSpec == VerbInit /\ [][Next]_vars

\* The fragments of the text, in order, a line feed after each but the last.
FragsAndLineFeeds ==
    [i \in 1..(2 * (Len(toks) \div 4) - 1) |->
        IF i % 2 = 1 THEN toks[4 * ((i - 1) \div 2) + 2] ELSE <<10>>]

\* C9: a verbatim string of k >= 1 fragments is the fragments' raw bytes
\* (what follows the `|` up to the next LF or CR, or to the end of the
\* input) joined by exactly one LF each, whatever blank lines, indentation
\* and comments lie between the fragments.
C9_FragmentsJoinedByLineFeed ==
    Done("value") =>
        /\ result.ok
        /\ result.v = OwnedString(Flatten(FragsAndLineFeeds))

\* Three fragments, the last one empty and ended by the input, have been
\* joined.
C9_Witness ==
    /\ Done("value")
    /\ Len(toks) = 12
    /\ toks[12] = <<>>
    /\ toks[4] # <<>>
    /\ result.ok
    /\ result.v = OwnedString(<<97, 10, 98, 35, 10>>)

(***************************************************************************)
(* Specification StallSpec: peek, eof and loop_with_buffer, one fill_buf   *)
(* at a time, on a source that may answer any fill_buf with an empty       *)
(* window.  zeroes counts the empty windows the running helper has been    *)
(* given in a row; the helpers themselves keep no such count.              *)
(***************************************************************************)
NO_PROGRESS_LIMIT == 1000

\* Empty windows in a row the source is followed through.
MaxZeroes == 1001

MaxStallLen == 2

\* 1  SP
StallBytes == {<<49>>, <<32>>}

Helpers == {"peek", "eof", "loop_with_buffer"}

StallInit ==
    /\ tree = NoAtom
    /\ jsonlike = NoAtom
    /\ base = NoBase
    /\ toks \in SeqsUpTo(StallBytes, MaxStallLen)
    /\ window \in WindowSizes(Flatten(toks))
    /\ pc = "start"
    /\ entry = "none"
    /\ result = NoResult
    /\ helper = "idle"
    /\ pending = Flatten(toks)
    /\ zeroes = 0
    /\ io = IoIdle

\* What the running helper returns, at the source's position.
StallReturn(ok, v, cause) ==
    /\ helper' = "returned"
    /\ result' = [ok |-> ok, v |-> v, cause |-> cause, pos |-> Len(Input) - Len(pending')]

\* The reader enters one of the helpers.
Call(h) ==
    /\ helper \in {"idle", "returned"}
    /\ helper' = h
    /\ zeroes' = 0
    /\ UNCHANGED <<tree, jsonlike, base, toks, window, pc, entry, result, pending, io>>

\* fill_buf gives Ok(empty window): peek and eof find buf.is_empty() and
\* loop; the closure of loop_with_buffer finds no byte to stop at, so
\* used = 0, consume(0), and the loop goes on.
FillEmpty ==
    /\ helper \in Helpers
    /\ zeroes < MaxZeroes
    /\ zeroes' = zeroes + 1
    /\ IF helper = "loop_with_buffer" /\ callback("digits", NoByte, <<>>).ret # NoByte
       THEN pending' = pending /\ StallReturn(TRUE, TRUE, "")
       ELSE UNCHANGED <<helper, pending, result>>
    /\ UNCHANGED <<tree, jsonlike, base, toks, window, pc, entry, io>>

\* fill_buf gives a window of at least one byte.
FillData ==
    /\ helper \in Helpers
    /\ pending # <<>>
    /\ zeroes' = 0
    /\ LET buf == Prefix(pending, IF window < Len(pending) THEN window ELSE Len(pending))
           ret == callback("digits", NoByte, buf).ret
       IN  CASE helper = "peek" ->
                   pending' = pending /\ StallReturn(TRUE, buf[1], "")
             [] helper = "eof" ->
                   pending' = pending /\ StallReturn(FALSE, <<>>, "expected end of file")
             [] helper = "loop_with_buffer" ->
                   IF ret # NoByte
                   THEN /\ pending' = SubSeq(pending, ret + 1, Len(pending))
                        /\ StallReturn(TRUE, TRUE, "")
                   ELSE /\ pending' = SubSeq(pending, Len(buf) + 1, Len(pending))
                        /\ UNCHANGED <<helper, result>>
    /\ UNCHANGED <<tree, jsonlike, base, toks, window, pc, entry, io>>

\* fill_buf gives Err(EndOfFile), which into_reader_result turns into None.
FillEof ==
    /\ helper \in Helpers
    /\ pending = <<>>
    /\ pending' = pending
    /\ CASE helper = "peek" -> StallReturn(TRUE, NoByte, "")
         [] helper = "eof" -> StallReturn(TRUE, <<>>, "")
         [] helper = "loop_with_buffer" -> StallReturn(TRUE, FALSE, "")
    /\ UNCHANGED <<tree, jsonlike, base, toks, window, pc, entry, zeroes, io>>

StallNext ==
    \/ \E h \in Helpers : Call(h)
    \/ FillEmpty
    \/ FillData
    \/ FillEof

StallSpec == StallInit /\ [][StallNext]_vars

\* C10: on a source that keeps answering fill_buf with an empty window and
\* never signals the end of the stream, peek, eof and loop_with_buffer
\* return after a bounded number of empty windows in a row: a helper still
\* running has been given no more than NO_PROGRESS_LIMIT of them.
C10_ZeroFillsBounded ==
    helper \in Helpers => zeroes <= NO_PROGRESS_LIMIT

(***************************************************************************)
(* Specification IoSpec: read_at_least, read_byte and read_char of         *)
(* util::io, one read of the source at a time.  The source is a Read over  *)
(* the bytes of the text: a read gives at least one byte and no more than  *)
(* fit while bytes are left, and 0 bytes from then on.  zeroes counts the  *)
(* 0-byte reads in a row the running function has been given.              *)
(***************************************************************************)
MaxChars == 2
MaxBufLen == 2

\* a, e-acute, the euro sign, an emoji; a continuation byte (width 0), a
\* 2-byte, a 3-byte and a 4-byte sequence cut short, a 2-byte sequence with
\* `(` for its continuation byte, an encoded surrogate.
CharPieces ==
    {<<97>>, <<195, 169>>, <<226, 130, 172>>, <<240, 159, 152, 128>>,
     <<128>>, <<195>>, <<226, 130>>, <<240, 159>>, <<195, 40>>, <<237, 160, 128>>}

IoInit ==
    /\ tree = NoAtom
    /\ jsonlike = NoAtom
    /\ base = NoBase
    /\ toks \in SeqsUpTo(CharPieces, MaxChars)
    /\ window = 1
    /\ pc = "start"
    /\ entry = "none"
    /\ result = NoResult
    /\ helper = "idle"
    /\ pending = Flatten(toks)
    /\ zeroes = 0
    /\ io = IoIdle

\* The running function returns.
IoReturn(ok, v, cause) ==
    /\ helper' = "returned"
    /\ result' = [ok |-> ok, v |-> v, cause |-> cause, pos |-> Len(Input) - Len(pending')]

\* read_at_least(r, min, buf) with a buffer of len bytes, up to the loop.
CallReadAtLeast(min, len) ==
    /\ helper = "idle"
    /\ entry' = "read_at_least"
    /\ pending' = pending
    /\ IF min > len
       THEN /\ IoReturn(FALSE, <<>>, "the buffer is too short")
            /\ io' = [io EXCEPT !.at = "returned"]
       ELSE /\ helper' = "read_at_least"
            /\ io' = [IoIdle EXCEPT !.at = "while", !.min = min, !.len = len]
            /\ result' = result
    /\ UNCHANGED <<tree, jsonlike, base, toks, window, pc, zeroes>>

\* read_byte(r), up to the loop of its read_at_least(r, 1, &mut buf).
CallReadByte ==
    /\ helper = "idle"
    /\ helper' = "read_byte"
    /\ entry' = "read_byte"
    /\ io' = [IoIdle EXCEPT !.at = "while", !.min = 1, !.len = 1]
    /\ UNCHANGED <<tree, jsonlike, base, toks, window, pc, result, pending, zeroes>>

\* read_char(b), up to the loop of the read_at_least of its read_byte.
CallReadChar ==
    /\ helper = "idle"
    /\ helper' = "read_char"
    /\ entry' = "read_char"
    /\ io' = [IoIdle EXCEPT !.at = "while", !.min = 1, !.len = 1]
    /\ UNCHANGED <<tree, jsonlike, base, toks, window, pc, result, pending, zeroes>>

\* The value read_at_least returns when its outer loop has ended.
ReadBytes == IF io.read < io.min THEN "NotEnough" ELSE "Enough"

\* read_char goes on with the byte its read_byte returned.
FirstByte(first_byte) ==
    IF utf8_char_width(first_byte) = 1
    THEN IoReturn(TRUE, first_byte, "") /\ io' = [io EXCEPT !.at = "returned"]
    ELSE IF utf8_char_width(first_byte) = 0
    THEN IoReturn(FALSE, <<>>, "invalid input") /\ io' = [io EXCEPT !.at = "returned"]
    ELSE /\ io' = [io EXCEPT !.at = "char_read", !.start = 1,
                             !.width = utf8_char_width(first_byte),
                             !.chars = <<first_byte>>]
         /\ UNCHANGED <<helper, result>>

\* The test of `while read < min`: another round of the inner loop with
\* zeroes = 0, or the end of read_at_least and what its caller does with
\* the value.
While ==
    /\ io.at = "while"
    /\ pending' = pending
    /\ IF io.read < io.min
       THEN /\ io' = [io EXCEPT !.zeroes = 0, !.at = "read"]
            /\ UNCHANGED <<helper, result>>
       ELSE CASE helper = "read_at_least" ->
                     /\ IoReturn(TRUE, <<ReadBytes, io.read>>, "")
                     /\ io' = [io EXCEPT !.at = "returned"]
              [] helper = "read_byte" ->
                     /\ IoReturn(TRUE, IF ReadBytes = "Enough" THEN io.buf[1] ELSE NoByte, "")
                     /\ io' = [io EXCEPT !.at = "returned"]
              [] helper = "read_char" ->
                     IF ReadBytes = "Enough"
                     THEN FirstByte(io.buf[1])
                     ELSE /\ IoReturn(TRUE, NoByte, "")
                          /\ io' = [io EXCEPT !.at = "returned"]
    /\ UNCHANGED <<tree, jsonlike, base, toks, window, pc, entry, zeroes>>

\* r.read(&mut buf[read..]) gives 0: zeroes += 1, and the break at
\* NO_PROGRESS_LIMIT leaves the inner loop for the test of the outer one.
Read0 ==
    /\ io.at = "read"
    /\ pending = <<>>
    /\ zeroes < MaxZeroes
    /\ zeroes' = zeroes + 1
    /\ io' = [io EXCEPT !.zeroes = io.zeroes + 1,
                        !.at = IF io.zeroes + 1 >= NO_PROGRESS_LIMIT THEN "while" ELSE "read"]
    /\ UNCHANGED <<tree, jsonlike, base, toks, window, pc, entry, result, helper, pending>>

\* r.read(&mut buf[read..]) gives n bytes: read += n and break.
ReadN(n) ==
    /\ io.at = "read"
    /\ n <= Len(pending)
    /\ n <= io.len - io.read
    /\ zeroes' = 0
    /\ pending' = SubSeq(pending, n + 1, Len(pending))
    /\ io' = [io EXCEPT !.read = io.read + n, !.buf = io.buf \o Prefix(pending, n),
                        !.at = "while"]
    /\ UNCHANGED <<tree, jsonlike, base, toks, window, pc, entry, result, helper>>

\* b.read(&mut buf[start .. width]) gives 0 in the loop of read_char:
\* 0 < width - start, so start += 0 and the loop goes on.
CharRead0 ==
    /\ io.at = "char_read"
    /\ pending = <<>>
    /\ zeroes < MaxZeroes
    /\ zeroes' = zeroes + 1
    /\ io' = [io EXCEPT !.start = io.start + 0]
    /\ UNCHANGED <<tree, jsonlike, base, toks, window, pc, entry, result, helper, pending>>

\* b.read(&mut buf[start .. width]) gives n bytes: the sequence is complete
\* and is decoded, or start += n.
CharReadN(n) ==
    /\ io.at = "char_read"
    /\ n <= Len(pending)
    /\ n <= io.width - io.start
    /\ zeroes' = 0
    /\ pending' = SubSeq(pending, n + 1, Len(pending))
    /\ IF n = io.width - io.start
       THEN /\ io' = [io EXCEPT !.chars = io.chars \o Prefix(pending, n), !.at = "returned"]
            /\ IF is_utf8(io.chars \o Prefix(pending, n))
               THEN IoReturn(TRUE, DecodeChar(io.chars \o Prefix(pending, n)), "")
               ELSE IoReturn(FALSE, <<>>, "invalid input")
       ELSE /\ io' = [io EXCEPT !.chars = io.chars \o Prefix(pending, n),
                                !.start = io.start + n]
            /\ UNCHANGED <<helper, result>>
    /\ UNCHANGED <<tree, jsonlike, base, toks, window, pc, entry>>

IoNext ==
    \/ \E min \in 0..(MaxBufLen + 1), len \in 1..MaxBufLen : CallReadAtLeast(min, len)
    \/ CallReadByte
    \/ CallReadChar
    \/ While
    \/ Read0
    \/ \E n \in 1..MaxBufLen : ReadN(n)
    \/ CharRead0
    \/ \E n \in 1..3 : CharReadN(n)

IoSpec == IoInit /\ [][IoNext]_vars

\* C11: read_at_least with min <= len(buf), on a reader that gives 0 bytes on
\* every read from some point on, stops after NO_PROGRESS_LIMIT 0-byte reads
\* in a row and returns NotEnough(n), n < min the bytes read so far, so that
\* read_byte returns None on an exhausted source: the running function has
\* been given no more than NO_PROGRESS_LIMIT such reads, and with fewer than
\* min bytes it returns NotEnough (read_byte: None).
C11_ReadAtLeastGivesUp ==
    /\ helper \in {"read_at_least", "read_byte"} => zeroes <= NO_PROGRESS_LIMIT
    /\ (helper = "returned" /\ entry = "read_at_least" /\ result.ok /\ result.v[2] < io.min)
           => result.v[1] = "NotEnough"
    /\ (helper = "returned" /\ entry = "read_byte" /\ Input = <<>>) => result.v = NoByte

\* The text does not start with one complete valid UTF-8 sequence: a first
\* byte of width 0, bad continuation bytes, or too few bytes.
FirstInvalid ==
    /\ Input # <<>>
    /\ \/ utf8_char_width(Input[1]) = 0
       \/ utf8_char_width(Input[1]) > Len(Input)
       \/ ~ValidChar(Prefix(Input, utf8_char_width(Input[1])))

\* C12: read_char returns an error (neither a character nor nothing at
\* all) when the next bytes of the stream are not one complete valid UTF-8
\* sequence: once returned the result is an error, and while running it has
\* been given no more than NO_PROGRESS_LIMIT 0-byte reads in a row.
C12_InvalidIsError ==
    (entry = "read_char" /\ FirstInvalid) =>
        /\ helper = "returned" => ~result.ok
        /\ helper = "read_char" => zeroes <= NO_PROGRESS_LIMIT

(***************************************************************************)
(* Specification ByteSpec: test_is_id_start and test_is_id_end, for one    *)
(* byte b = toks[1][1] of 0..255 at a time.                                *)
(***************************************************************************)
\* The scalar values whose encoding starts with byte b are those of
\* ScalarLo(b)..ScalarHi(b) that char::from_u32 accepts (no surrogates);
\* the range is empty for a byte that starts no encoding.
ScalarLo(b) ==
    IF b < 128 THEN b
    ELSE IF In(b, 194, 223) THEN (b - 192) * 64
    ELSE IF b = 224 THEN 2048
    ELSE IF In(b, 225, 239) THEN (b - 224) * 4096
    ELSE IF b = 240 THEN 65536
    ELSE IF In(b, 241, 244) THEN (b - 240) * 262144
    ELSE 1

ScalarHi(b) ==
    IF b < 128 THEN b
    ELSE IF In(b, 194, 223) THEN (b - 192) * 64 + 63
    ELSE IF In(b, 224, 239) THEN (b - 224) * 4096 + 4095
    ELSE IF In(b, 240, 243) THEN (b - 240) * 262144 + 262143
    ELSE IF b = 244 THEN 1114111
    ELSE 0

\* char::from_u32(c).is_some()
from_u32(c) == In(c, 0, 1114111) /\ ~In(c, 55296, 57343)

ByteInit ==
    /\ tree = NoAtom
    /\ jsonlike = NoAtom
    /\ base = NoBase
    /\ toks \in {<<<<b>>>> : b \in 0..255}
    /\ window = 1
    /\ pc = "start"
    /\ entry = "none"
    /\ result = NoResult
    /\ helper = "idle"
    /\ pending = <<>>
    /\ zeroes = 0
    /\ io = IoIdle

\* test_is_id_start at byte b: ok is is_id_start_byte(b), v.present is
\* present[b], v.is_end whether the first assert passed for every scalar
\* value that starts with b.
TestIsIdStart ==
    /\ pc = "start"
    /\ pc' = "done"
    /\ entry' = "test_is_id_start"
    /\ result' =
          [ok |-> is_id_start_byte(toks[1][1]),
           v |-> [present |-> \E c \in ScalarLo(toks[1][1])..ScalarHi(toks[1][1]) :
                                 from_u32(c) /\ is_id_start(c),
                  is_end |-> \A c \in ScalarLo(toks[1][1])..ScalarHi(toks[1][1]) :
                                 (from_u32(c) /\ is_id_start(c)) => is_id_end(c)],
           cause |-> "", pos |-> 0]
    /\ UNCHANGED <<tree, jsonlike, base, toks, window, helper, pending, zeroes, io>>

\* test_is_id_end at byte b.
TestIsIdEnd ==
    /\ pc = "start"
    /\ pc' = "done"
    /\ entry' = "test_is_id_end"
    /\ result' =
          [ok |-> is_id_end_byte(toks[1][1]),
           v |-> [present |-> \E c \in ScalarLo(toks[1][1])..ScalarHi(toks[1][1]) :
                                 from_u32(c) /\ is_id_end(c),
                  is_end |-> TRUE],
           cause |-> "", pos |-> 0]
    /\ UNCHANGED <<tree, jsonlike, base, toks, window, helper, pending, zeroes, io>>

ByteNext == TestIsIdStart \/ TestIsIdEnd

ByteSpec == ByteInit /\ [][ByteNext]_vars

\* The range of byte b is the one encode_utf8 gives: its ends start with b,
\* and the next scalar value after it starts with another byte.
RangeOfFirstByte(b) ==
    ScalarLo(b) <= ScalarHi(b) =>
        /\ encode_utf8_raw(ScalarLo(b))[1] = b
        /\ encode_utf8_raw(ScalarHi(b))[1] = b
        /\ ScalarLo(b) > 0 => encode_utf8_raw(ScalarLo(b) - 1)[1] < b
        /\ ScalarHi(b) < 1114111 => encode_utf8_raw(ScalarHi(b) + 1)[1] > b

\* C13: for both pairs (is_id_start_byte with is_id_start, is_id_end_byte
\* with is_id_end) and every byte b of 0..255, the byte-level test accepts
\* b exactly when some scalar value the full test accepts has b for the
\* first byte of its UTF-8 encoding.
C13_ByteTestIsFirstByteOfFullTest ==
    (pc = "done" /\ entry \in {"test_is_id_start", "test_is_id_end"}) =>
        /\ RangeOfFirstByte(toks[1][1])
        /\ result.ok = result.v.present

\* 0xcd starts an identifier (U+0370 and others).
C13_Witness ==
    /\ Done("test_is_id_start")
    /\ toks[1][1] = 205
    /\ result.ok
    /\ result.v.present

\* C14: every scalar value is_id_start accepts, is_id_end accepts as well.
C14_StartIsEnd ==
    Done("test_is_id_start") => result.v.is_end

\* The scalar values of U+10000..U+3FFFF, all of them identifier starts,
\* have been found identifier ends.
C14_Witness ==
    /\ Done("test_is_id_start")
    /\ toks[1][1] = 240
    /\ result.v.present
    /\ result.v.is_end

(***************************************************************************)
(* Specification PadSpec: an array or object text, given by its tokens     *)
(* (base), with spaces and tabs put before at most MaxPadded of its        *)
(* tokens or after the last one, and possibly a comma after its last       *)
(* item.  toks = <<the text up to the last item, the comma slot, the rest, *)
(* the pad after the close>>.                                              *)
(***************************************************************************)
MaxPadded == 2

Pads == {<<32>>, <<9, 32>>}

PadBases ==
    {\* [1]   [0]   [1,2]   [1 LF 2]
     [tokens |-> <<<<91>>, <<49>>, <<93>>>>, last |-> 2],
     [tokens |-> <<<<91>>, <<48>>, <<93>>>>, last |-> 2],
     [tokens |-> <<<<91>>, <<49>>, <<44>>, <<50>>, <<93>>>>, last |-> 4],
     [tokens |-> <<<<91>>, <<49>>, <<10>>, <<50>>, <<93>>>>, last |-> 4],
     \* {a:1}   {'a'=[true],b:"s"}, the comma slot in either collection
     [tokens |-> <<<<123>>, <<97>>, <<58>>, <<49>>, <<125>>>>, last |-> 4],
     [tokens |-> <<<<123>>, <<39, 97, 39>>, <<61>>, <<91>>, <<116, 114, 117, 101>>, <<93>>,
                   <<44>>, <<98>>, <<58>>, <<34, 115, 34>>, <<125>>>>, last |-> 10],
     [tokens |-> <<<<123>>, <<39, 97, 39>>, <<61>>, <<91>>, <<116, 114, 117, 101>>, <<93>>,
                   <<44>>, <<98>>, <<58>>, <<34, 115, 34>>, <<125>>>>, last |-> 5],
     \* [[1]], the comma slot in either array
     [tokens |-> <<<<91>>, <<91>>, <<49>>, <<93>>, <<93>>>>, last |-> 3],
     [tokens |-> <<<<91>>, <<91>>, <<49>>, <<93>>, <<93>>>>, last |-> 4],
     \* [|v LF]
     [tokens |-> <<<<91>>, <<124, 118, 10>>, <<93>>>>, last |-> 2],
     \* []   {}
     [tokens |-> <<<<91>>, <<93>>>>, last |-> 0],
     [tokens |-> <<<<123>>, <<125>>>>, last |-> 0],
     \* [1,]   {a:1,}
     [tokens |-> <<<<91>>, <<49>>, <<44>>, <<93>>>>, last |-> 2],
     [tokens |-> <<<<123>>, <<97>>, <<58>>, <<49>>, <<44>>, <<125>>>>, last |-> 4]}

\* Pads for k places, at most n of them not empty.
RECURSIVE PadsFor(_, _)
PadsFor(k, n) ==
    IF n = 0 THEN {[i \in 1..k |-> <<>>]}
    ELSE PadsFor(k, n - 1)
         \cup {[ps EXCEPT ![i] = p] : ps \in PadsFor(k, n - 1), i \in 1..k, p \in Pads}

\* The tokens from..to of b, each after its pad.
PaddedTokens(b, ps, from, to) ==
    Flatten([i \in 1..(to - from + 1) |-> ps[from + i - 1] \o b.tokens[from + i - 1]])

Padded(b, comma, ps) ==
    <<PaddedTokens(b, ps, 1, b.last),
      ps[Len(b.tokens) + 1] \o comma,
      PaddedTokens(b, ps, b.last + 1, Len(b.tokens)),
      ps[Len(b.tokens) + 2]>>

PadInit ==
    /\ tree = NoAtom
    /\ jsonlike = NoAtom
    /\ base \in PadBases
    /\ toks \in {Padded(base, comma, ps) :
                    comma \in IF base.last = 0 THEN {<<>>} ELSE {<<>>, <<44>>},
                    ps \in PadsFor(Len(base.tokens) + 2, MaxPadded)}
    /\ window \in WindowSizes(Flatten(toks))
    /\ pc = "start"
    /\ entry = "none"
    /\ result = NoResult
    /\ helper = "idle"
    /\ pending = <<>>
    /\ zeroes = 0
    /\ io = IoIdle

PadSpec == PadInit /\ [][Next]_vars

\* What parse_value gives for the base text.
Plain == parse_value(NewReader(Flatten(base.tokens), window))

\* A comma has been added after the last item.
CommaAdded == toks[2] # <<>> /\ toks[2][Len(toks[2])] = 44

\* The last item of the base text is followed by a comma already.
CommaAlready == base.tokens[base.last + 1] = <<44>>

MaxBadTail == 2

BadOpens == {<<>>, <<91>>}                                  \* none, [
BadInts == {<<>>, <<48>>, <<49, 50>>, <<49, 48>>}           \* none, 0, 12, 10
BadFracs == {<<>>, <<46>>, <<46, 53>>}                      \* none, ., .5
\* none, e, E, e+, E-, e5
BadExps == {<<>>, <<101>>, <<69>>, <<101, 43>>, <<69, 45>>, <<101, 53>>}
\* Tails of x, SP, `.`, e, +, -, ] and 5, no digit first.
BadTails == {t \in SeqsUpTo({120, 32, 46, 101, 43, 45, 93, 53}, MaxBadTail) :
                t = <<>> \/ ~IsDigit(t[1])}

\* The mark and sign of an exponent, no digit.
IsBareExp(e) == e # <<>> /\ ~IsDigit(e[Len(e)])

\* Which digit is missing: after the minus, after the point, or in the
\* exponent ("none" when the number is well formed up to its tail).
Missing(t) ==
    IF t[3] = <<>> THEN (IF t[2] = <<45>> THEN "minus" ELSE "none")
    ELSE IF t[4] = <<46>> THEN "point"
    ELSE IF ~IsBareExp(t[5]) THEN "none"
    ELSE IF t[6] = <<>> THEN "exponent"
    ELSE IF Len(t[5]) = 1 /\ t[6][1] \in {43, 45}
    THEN (IF Len(t[6]) >= 2 /\ IsDigit(t[6][2]) THEN "none" ELSE "exponent")
    ELSE "exponent"

BadNumInit ==
    InitOver({t \in {<<o, s, i, f, e, x>> : o \in BadOpens, s \in Signs, i \in BadInts,
                                           f \in BadFracs, e \in BadExps, x \in BadTails} :
                 Missing(t) # "none"})

BadNumSpec == BadNumInit /\ [][Next]_vars

\* C16: the number production returns an error and never a value when a
\* `-` is not followed by a digit, when a `.` after the integer part is not
\* followed by a digit, and when an `e`/`E` (with one `+` or `-` or none)
\* is not followed by a digit; the end of the input at these places is the
\* same error as any other byte.
C16_MissingDigitIsError ==
    Done("value") =>
        /\ ~result.ok
        /\ result.v = <<>>
        /\ Missing(toks) = "minus" => result.cause = "expected a number, got '-'"
        /\ Missing(toks) = "point"
               => result.cause = "a number cannot have a trailing decimal point"
        /\ Missing(toks) = "exponent"
               => result.cause = "a number has an incomplete exponent part"

\* -0.5E- at the end of the input has failed for its exponent.
C16_Witness ==
    /\ Done("value")
    /\ toks = <<<<>>, <<45>>, <<48>>, <<46, 53>>, <<69, 45>>, <<>>>>
    /\ ~result.ok
    /\ result.cause = "a number has an incomplete exponent part"

(***************************************************************************)
(* repr.rs: the conversions between repr::Atom and json::Json.  An object  *)
(* of either kind is a TreeMap, a sequence of entries [k, v] sorted by     *)
(* key; a key is kept as its text.                                         *)
(***************************************************************************)
JsonNull == [tag |-> "json::Null"]
JsonBoolean(b) == [tag |-> "json::Boolean", b |-> b]
JsonI64(neg, mag) == [tag |-> "json::I64", neg |-> neg, mag |-> mag]
JsonU64(mag) == [tag |-> "json::U64", mag |-> mag]
JsonF64(text) == [tag |-> "json::F64", text |-> text]
JsonString(s) == [tag |-> "json::String", s |-> s]
JsonArray(l) == [tag |-> "json::Array", l |-> l]
JsonObject(o) == [tag |-> "json::Object", o |-> o]

\* k.to_string() of a Key, Key::new(k) of a String
to_string(k) == k
Key_new(k) == k

\* Iterator::collect into a TreeMap.
RECURSIVE collect(_, _)
collect(entries, items) ==
    IF entries = <<>> THEN items
    ELSE collect(Tail(entries), insert(items, entries[1].k, entries[1].v))

RECURSIVE to_json(_)
to_json(a) ==
    CASE a.tag = "Null" -> JsonNull
      [] a.tag = "True" -> JsonBoolean(TRUE)
      [] a.tag = "False" -> JsonBoolean(FALSE)
      [] a.tag = "I64" -> JsonI64(a.neg, a.mag)
      [] a.tag = "U64" -> JsonU64(a.mag)
      [] a.tag = "F64" -> JsonF64(a.text)
      [] a.tag = "Str" -> JsonString(a.s)
      [] a.tag = "List" -> JsonArray([i \in 1..Len(a.l) |-> to_json(a.l[i])])
      [] a.tag = "Object" ->
             JsonObject(collect([i \in 1..Len(a.o) |->
                                    [k |-> to_string(a.o[i].k), v |-> to_json(a.o[i].v)]],
                                EmptyMap))

\* Every boolean becomes True.
from_owned_json_boolean_true(b) == True

\* json::Boolean(true) => True, json::Boolean(false) => False
from_owned_json_boolean(b) == IF b THEN True ELSE False

RECURSIVE from_owned_json(_)
from_owned_json(j) ==
    CASE j.tag = "json::I64" -> IntegralNumber(j.neg, j.mag)
      [] j.tag = "json::U64" -> U64(j.mag)
      [] j.tag = "json::F64" -> Number(j.text)
      [] j.tag = "json::String" -> OwnedString(j.s)
      [] j.tag = "json::Boolean" -> from_owned_json_boolean(j.b)
      [] j.tag = "json::Array" -> List([i \in 1..Len(j.l) |-> from_owned_json(j.l[i])])
      [] j.tag = "json::Object" ->
             Object(collect([i \in 1..Len(j.o) |->
                                [k |-> Key_new(j.o[i].k), v |-> from_owned_json(j.o[i].v)]],
                            EmptyMap))
      [] j.tag = "json::Null" -> Null

(***************************************************************************)
(* Specification ReprSpec: a value tree of at most MaxDepth levels of      *)
(* arrays and objects is converted with to_json and back with              *)
(* from_owned_json.                                                        *)
(***************************************************************************)
MaxDepth == 2

\* -5, 0, 2^64 - 1, 1.5, "", "s"
Leaves ==
    {Null, True, False, IntegralNumber(TRUE, <<5>>), IntegralNumber(FALSE, <<0>>),
     U64(<<1, 8, 4, 4, 6, 7, 4, 4, 0, 7, 3, 7, 0, 9, 5, 5, 1, 6, 1, 5>>),
     Number(<<49, 46, 53>>), OwnedString(<<>>), OwnedString(<<115>>)}

\* The items put beside a nested value.
Siblings == {False, OwnedString(<<115>>)}

\* The trees of at most n levels: a leaf, an empty collection, or an array
\* or an object (keys a, b) that holds a tree of n - 1 levels, alone, before
\* or after a sibling.
RECURSIVE Trees(_)
Trees(n) ==
    IF n = 0 THEN Leaves
    ELSE Trees(n - 1) \cup {List(<<>>), Object(EmptyMap)}
         \cup {List(<<x>>) : x \in Trees(n - 1)}
         \cup {List(<<l, x>>) : l \in Siblings, x \in Trees(n - 1)}
         \cup {List(<<x, l>>) : l \in Siblings, x \in Trees(n - 1)}
         \cup {Object(<<[k |-> <<97>>, v |-> x]>>) : x \in Trees(n - 1)}
         \cup {Object(<<[k |-> <<97>>, v |-> l], [k |-> <<98>>, v |-> x]>>) :
                   l \in Siblings, x \in Trees(n - 1)}
         \cup {Object(<<[k |-> <<97>>, v |-> x], [k |-> <<98>>, v |-> l]>>) :
                   l \in Siblings, x \in Trees(n - 1)}

ReprInit ==
    /\ tree \in Trees(MaxDepth)
    /\ jsonlike = NoAtom
    /\ base = NoBase
    /\ toks = <<>>
    /\ window = 1
    /\ pc = "start"
    /\ entry = "none"
    /\ result = NoResult
    /\ helper = "idle"
    /\ pending = <<>>
    /\ zeroes = 0
    /\ io = IoIdle

ToJson ==
    /\ pc = "start"
    /\ tree # NoAtom
    /\ pc' = "json"
    /\ entry' = "to_json"
    /\ jsonlike' = to_json(tree)
    /\ UNCHANGED <<tree, base, toks, window, result, helper, pending, zeroes, io>>

FromOwnedJson ==
    /\ pc = "json"
    /\ pc' = "done"
    /\ entry' = "from_owned_json"
    /\ result' = [ok |-> TRUE, v |-> from_owned_json(jsonlike), cause |-> "", pos |-> 0]
    /\ UNCHANGED <<tree, jsonlike, base, toks, window, helper, pending, zeroes, io>>

ReprNext == ToJson \/ FromOwnedJson

ReprSpec == ReprInit /\ [][ReprNext]_vars

\* C17: for every value tree v, nested arrays and objects included,
\* from_owned_json of to_json of v is a tree equal to v: the same variant at
\* every node, the same array order, the same keys and the same values.
C17_JsonRoundTrip ==
    Done("from_owned_json") => result.v = tree

\* [false, {a: true, b: "s"}] has been converted to json and back.
C17_Witness ==
    /\ Done("from_owned_json")
    /\ tree = List(<<False, Object(<<[k |-> <<97>>, v |-> True],
                                      [k |-> <<98>>, v |-> OwnedString(<<115>>)]>>)>>)
    /\ jsonlike.tag = "json::Array"
    /\ jsonlike.l[1] = JsonBoolean(FALSE)
    /\ jsonlike.l[2].o[1].v = JsonBoolean(TRUE)
    /\ result.v = tree

(***************************************************************************)
(* Specification NameSpec: a member whose bare name is made of at most     *)
(* MaxNameChars characters, well formed or not: toks = <<open, character,  *)
(* ..., close>>.                                                           *)
(***************************************************************************)
MaxNameChars == 2

\* a, e-acute, 1, U+0300, U+00B7 (the last three no identifier starts);
\* U+00A0, U+037E (no identifier characters, their first bytes 0xc2 and 0xcd
\* pass both byte tests); 0xc3 with `(` for its continuation byte, an
\* encoded surrogate, an overlong U+0000; 0xc3 and 0xe2 0x82 cut short.
NameChars ==
    {<<97>>, <<195, 169>>, <<49>>, <<204, 128>>, <<194, 183>>,
     <<194, 160>>, <<205, 190>>,
     <<195, 40>>, <<237, 160, 128>>, <<240, 128, 128, 128>>,
     <<195>>, <<226, 130>>}

NameOpens == {<<>>, <<123>>}                \* none (a document of members), {
NameCloses == {<<>>, <<58, 49, 125>>}       \* none, :1}

NameInit ==
    InitOver({<<o>> \o cs \o <<c>> :
                 o \in NameOpens, c \in NameCloses,
                 cs \in SeqsUpTo(NameChars, MaxNameChars) \ {<<>>}})

NameSpec == NameInit /\ [][Next]_vars

\* Character i of the name (toks[i + 1]) passes the byte-level test of its
\* place.
PreTest(i) ==
    IF i = 1 THEN is_id_start_byte(toks[i + 1][1]) ELSE is_id_end_byte(toks[i + 1][1])

\* It is one valid UTF-8 sequence and the full test of its place accepts it.
FullTest(i) ==
    /\ ValidChar(toks[i + 1])
    /\ IF i = 1 THEN is_id_start(DecodeChar(toks[i + 1]))
       ELSE is_id_end(DecodeChar(toks[i + 1]))

\* The name is read (an object is open, or the document is one of members)
\* and comes to a character that passes the byte-level test and fails to
\* decode or fails the full test, all characters before it being accepted.
NameBreaks ==
    /\ pc = "done"
    /\ toks[1] = <<123>> \/ entry = "document"
    /\ \E i \in 1..(Len(toks) - 2) :
          /\ \A j \in 1..(i - 1) : PreTest(j) /\ FullTest(j)
          /\ PreTest(i)
          /\ ~FullTest(i)

\* C18: while a bare-string name is read, a byte that passes the byte-level
\* test of its place but whose character fails to decode or is rejected by
\* the full test makes the whole parse fail, with an error of the bare
\* string: the name does not end before that character and the place is
\* not taken for one without a name.
C18_BadNameCharIsError ==
    NameBreaks =>
        /\ ~result.ok
        /\ result.cause \in {"expected a bare string, got an invalid character",
                              "expected a bare string, got the end of file",
                              "I/O error"}

\* {a U+037E :1} has failed at the second character of its name.
C18_Witness ==
    /\ NameBreaks
    /\ entry = "value"
    /\ toks = <<<<123>>, <<97>>, <<205, 190>>, <<58, 49, 125>>>>
    /\ result.cause = "expected a bare string, got an invalid character"

(***************************************************************************)
(* Specification ChunkSpec: texts of at most MaxChunkToks pieces, read     *)
(* from a source of one-byte windows or of one window, to be compared with *)
(* the reading of the same text from every other source.                   *)
(***************************************************************************)
MaxChunkToks == 2

\* 12  [  ]  `,` LF  "\n"  null  e-acute `:`  |v LF
ChunkAlphabet ==
    {<<49, 50>>, <<91>>, <<93>>, <<44, 10>>, <<34, 92, 110, 34>>,
     <<110, 117, 108, 108>>, <<195, 169, 58>>, <<124, 118, 10>>}

ChunkInit == InitOver(SeqsUpTo(ChunkAlphabet, MaxChunkToks))

ChunkSpec == ChunkInit /\ [][Next]_vars

\* Every way of splitting the text into windows: a set of positions after
\* which a window ends.
Chunkings == SUBSET (1..(Len(Input) - 1))

\* C19: the result of parse_document and of parse_value depends on the
\* bytes of the input alone, not on how the source splits them into
\* windows: the run made (one-byte windows, or one window) and the run with
\* any other windows both fail or both return the same value.
C19_ChunkingIndependent ==
    /\ Done("value") =>
           \A cuts \in Chunkings :
               SameOutcome(result, parse_value(NewReaderCut(Input, cuts)))
    /\ Done("document") =>
           \A cuts \in Chunkings :
               SameOutcome(result, parse_document(NewReaderCut(Input, cuts)))

\* e-acute `:` null, read one byte at a time, is the document it is with the
\* name and the literal each split in the middle.
C19_Witness ==
    /\ Done("document")
    /\ window = 1
    /\ toks = <<<<195, 169, 58>>, <<110, 117, 108, 108>>>>
    /\ result.ok
    /\ result.v = Object(<<[k |-> <<195, 169>>, v |-> Null]>>)
    /\ parse_document(NewReaderCut(Input, {1, 5})) = result

(***************************************************************************)
(* Specification OneCommaSpec: an array or an object of two items with one *)
(* comma between them, at most MaxSepPad pieces of whitespace on each side *)
(* of it, and possibly a second comma after it or a comma before the first *)
(* item.                                                                   *)
(***************************************************************************)
MaxSepPad == 1

\* [1 ... "s"]   [[] ... 2]   {a:1 ... b="s"}   {a:{} ... b:2}
SepKinds ==
    {[open |-> <<91>>, a |-> <<49>>, b |-> <<34, 115, 34>>, close |-> <<93>>,
      v |-> List(<<IntegralNumber(FALSE, <<1>>), OwnedString(<<115>>)>>)],
     [open |-> <<91>>, a |-> <<91, 93>>, b |-> <<50>>, close |-> <<93>>,
      v |-> List(<<List(<<>>), IntegralNumber(FALSE, <<2>>)>>)],
     [open |-> <<123>>, a |-> <<97, 58, 49>>, b |-> <<98, 61, 34, 115, 34>>,
      close |-> <<125>>,
      v |-> Object(insert(insert(EmptyMap, <<97>>, IntegralNumber(FALSE, <<1>>)),
                          <<98>>, OwnedString(<<115>>)))],
     [open |-> <<123>>, a |-> <<97, 58, 123, 125>>, b |-> <<98, 58, 50>>,
      close |-> <<125>>,
      v |-> Object(insert(insert(EmptyMap, <<97>>, Object(EmptyMap)),
                          <<98>>, IntegralNumber(FALSE, <<2>>)))]}

\* Whitespace and line terminators around a comma.
SepPads == {Flatten(q) : q \in SeqsUpTo({<<32>>, <<9>>, <<10>>, <<13, 10>>}, MaxSepPad)}

\* What stands between two commas: whitespace, line terminators, comments.
SepMids == {Flatten(q) : q \in SeqsUpTo({<<13, 10>>, <<35, 99, 10>>}, MaxSepPad)}

\* A comma before the first item, if any.
SepLeads == {<<>>, <<10, 44, 32>>}

SepTexts ==
    {<<k.open, lead, k.a, pre, <<44>>, second, post, k.b, k.close>> :
        k \in SepKinds, lead \in SepLeads, pre \in SepPads, post \in SepPads,
        second \in {<<>>} \cup {mid \o <<44>> : mid \in SepMids}}

OneCommaInit == InitOver(SepTexts)

OneCommaSpec == OneCommaInit /\ [][Next]_vars

LeadComma == toks[2] # <<>>
TwoCommas == toks[6] # <<>>

\* The collection of the two items of the text.
SepValue == (CHOOSE k \in SepKinds : k.open = toks[1] /\ k.a = toks[3]).v

SepExpected == IF toks[1] = <<91>> THEN "expected ']'" ELSE "expected '}'"

\* C20: between two items of an array or object one comma, with whitespace
\* and line terminators before and after it, is one separator: the parse
\* returns the collection of exactly the two items.  A second comma after
\* it, with only whitespace and comments between the two, or a comma before
\* the first item, makes the parse fail with "expected ']'" in an array and
\* "expected '}'" in an object; no collection with an empty item is returned.
C20_AtMostOneComma ==
    \A e \in {"value", "document"} :
        Done(e) =>
            IF LeadComma \/ TwoCommas
            THEN ~result.ok /\ result.cause = SepExpected
            ELSE result.ok /\ result.v = SepValue

\* [1 `,` CR LF `,` "s"] fails at the second comma.
C20_Witness ==
    /\ Done("value")
    /\ toks = <<<<91>>, <<>>, <<49>>, <<>>, <<44>>, <<13, 10, 44>>, <<>>,
                <<34, 115, 34>>, <<93>>>>
    /\ ~result.ok
    /\ result.cause = "expected ']'"
    /\ result.pos = 5

(***************************************************************************)
(* The cursor of the source.                                               *)
(***************************************************************************)
\* C22: every consume the reader issues takes bytes of the filled window
\* only, so that the cursor of the source is never moved past the end of
\* the data: when an entry point returns, the cursor stands within the text.
C22_CursorWithinData ==
    \A e \in {"value", "document"} :
        Done(e) => result.pos <= Len(Input)

(***************************************************************************)
(* Specification LoopSpec: the loops of skip_ws, object_items_opt,         *)
(* array_items_opt, quoted_chars_then_quote, verbatim_string_no_peek and   *)
(* bare_string_no_peek, one iteration at a time, each one entered where an *)
(* entry point enters it on the text.  helper is the loop that runs,       *)
(* pending the bytes it has not consumed, zeroes the number of iterations  *)
(* in a row that went on without consuming a byte.                         *)
(***************************************************************************)
MaxLoopToks == 3
MaxIdle == 1

Loops ==
    {"skip_ws", "object_items_opt", "array_items_opt", "quoted_chars_then_quote",
     "verbatim_string_no_peek", "bare_string_no_peek"}

\* The end of an iteration: the loop goes on from r, or is left at r by a
\* break or a return.
GoOn(r) == [go |-> TRUE, r |-> r]
Leave(r) == [go |-> FALSE, r |-> r]

\* skip_ws: the scan l has been made.
skip_ws_iteration_scanned(l) ==
    IF l.flag THEN GoOn(skip_non_newline_chars(l.r)) ELSE Leave(l.r)

\* A loop of skip_ws that leaves the comment where it is.
skip_ws_iteration_stuck(r) ==
    IF loop_with_buffer(r, "skip_ws", NoByte).flag THEN GoOn(r) ELSE Leave(r)

skip_ws_iteration(r) ==
    skip_ws_iteration_scanned(loop_with_buffer(r, "skip_ws", NoByte))

\* object_items_opt and array_items_opt: the item m has been looked for.
items_iteration_item(m) == IF m.st = "ok" THEN GoOn(m.r) ELSE Leave(m.r)

object_items_iteration_separated(sep) ==
    IF sep.st # "ok" THEN Leave(sep.r) ELSE items_iteration_item(member_opt(sep.r))

object_items_iteration(r) ==
    object_items_iteration_separated(skip_value_separator_opt(r))

array_items_iteration_separated(sep) ==
    IF sep.st # "ok" THEN Leave(sep.r) ELSE items_iteration_item(value_opt(sep.r))

array_items_iteration(r) ==
    array_items_iteration_separated(skip_value_separator_opt(r))

\* quoted_chars_then_quote: the escape c has been read.
quoted_chars_iteration_escaped(c) ==
    IF c.st = "err" THEN Leave(c.r) ELSE GoOn(c.r)

quoted_chars_iteration_scanned(l) ==
    IF ~l.found THEN Leave(l.r)
    ELSE IF l.flag THEN quoted_chars_iteration_escaped(escaped_char(l.r))
    ELSE Leave(l.r)

quoted_chars_iteration(r, quote) ==
    quoted_chars_iteration_scanned(loop_with_buffer(r, "quoted", quote))

\* verbatim_string_no_peek: the whitespace after the line has been skipped.
verbatim_string_iteration_skipped(w) ==
    IF peek(w.r) # 124 THEN Leave(w.r) ELSE GoOn(w.r)

verbatim_string_iteration_line(n) ==
    IF ~is_utf8(n.bytes) THEN Leave(n.r)
    ELSE verbatim_string_iteration_skipped(skip_ws(consume(n.r, 1)))

verbatim_string_iteration(r) ==
    verbatim_string_iteration_line(non_newline_chars(consume(r, 1)))

\* bare_string_no_peek: the character c has been read.
bare_string_iteration_char(c) ==
    IF c.st = "ok" /\ is_id_end(c.v) THEN GoOn(c.r) ELSE Leave(c.r)

bare_string_iteration(r) ==
    IF peek(r) # NoByte /\ is_id_end_byte(peek(r))
    THEN bare_string_iteration_char(buf_read_char(r))
    ELSE Leave(r)

\* Where parse_value and parse_document stand after their first skip_ws.
Skipped == skip_ws(NewReader(Input, window)).r

\* Whether the entry point comes to the loop, and where: ok with the
\* position of the source at the first iteration.  The item loops are
\* entered after a first item, the loop of a bare string after its first
\* character.
EnteredAfter(first) == IF first.st = "ok" THEN Ok(<<>>, first.r) ELSE NoneAt(first.r)

EnteredFirst(c) ==
    IF c.st = "ok" /\ is_id_start(c.v) THEN Ok(<<>>, c.r) ELSE NoneAt(c.r)

Entered(h) ==
    CASE h = "skip_ws" -> Ok(<<>>, NewReader(Input, window))
      [] h = "object_items_opt" ->
            IF peek(Skipped) = 123
            THEN EnteredAfter(member_opt(skip_ws(consume(Skipped, 1)).r))
            ELSE NoneAt(Skipped)
      [] h = "array_items_opt" ->
            IF peek(Skipped) = 91
            THEN EnteredAfter(value_opt(skip_ws(consume(Skipped, 1)).r))
            ELSE NoneAt(Skipped)
      [] h = "quoted_chars_then_quote" ->
            IF peek(Skipped) = 34 \/ peek(Skipped) = 39
            THEN Ok(<<>>, consume(Skipped, 1))
            ELSE NoneAt(Skipped)
      [] h = "verbatim_string_no_peek" ->
            IF peek(Skipped) = 124 THEN Ok(<<>>, Skipped) ELSE NoneAt(Skipped)
      [] h = "bare_string_no_peek" ->
            IF peek(Skipped) # NoByte /\ is_id_start_byte(peek(Skipped))
            THEN EnteredFirst(buf_read_char(Skipped))
            ELSE NoneAt(Skipped)

\* One iteration of the loop h with the source at r.
Iteration(h, r) ==
    CASE h = "skip_ws" -> skip_ws_iteration(r)
      [] h = "object_items_opt" -> object_items_iteration(r)
      [] h = "array_items_opt" -> array_items_iteration(r)
      [] h = "quoted_chars_then_quote" -> quoted_chars_iteration(r, peek(Skipped))
      [] h = "verbatim_string_no_peek" -> verbatim_string_iteration(r)
      [] h = "bare_string_no_peek" -> bare_string_iteration(r)

\* The bytes the source at r has left, and the source that has pending left.
Unread(r) == SubSeq(r.data, r.pos + 1, Len(r.data))
Cursor == [NewReader(Input, window) EXCEPT !.pos = Len(Input) - Len(pending)]

\* "  # c LF  [  {  1 `,`  a:1 LF  "  \n  x  |v LF  |  e-acute
LoopAlphabet ==
    {<<32>>, <<35, 99, 10>>, <<91>>, <<123>>, <<49, 44>>, <<97, 58, 49, 10>>,
     <<34>>, <<92, 110>>, <<120>>, <<124, 118, 10>>, <<124>>, <<195, 169>>}

LoopInit == InitOver(SeqsUpTo(LoopAlphabet, MaxLoopToks))

EnterLoop(h) ==
    /\ pc = "start"
    /\ Entered(h).st = "ok"
    /\ pc' = "loop"
    /\ helper' = h
    /\ pending' = Unread(Entered(h).r)
    /\ UNCHANGED <<tree, jsonlike, base, toks, window, entry, result, zeroes, io>>

Continue ==
    /\ pc = "loop"
    /\ zeroes < MaxIdle
    /\ Iteration(helper, Cursor).go
    /\ pending' = Unread(Iteration(helper, Cursor).r)
    /\ zeroes' = IF Len(pending') < Len(pending) THEN 0 ELSE zeroes + 1
    /\ UNCHANGED <<tree, jsonlike, base, toks, window, pc, entry, result, helper, io>>

LeaveLoop ==
    /\ pc = "loop"
    /\ ~Iteration(helper, Cursor).go
    /\ pc' = "done"
    /\ pending' = Unread(Iteration(helper, Cursor).r)
    /\ UNCHANGED <<tree, jsonlike, base, toks, window, entry, result, helper, zeroes, io>>

LoopNext == (\E h \in Loops : EnterLoop(h)) \/ Continue \/ LeaveLoop

LoopSpec == LoopInit /\ [][LoopNext]_vars

\* C21: on every finite text, read from a source that reports its end,
\* every iteration of the six loops either leaves the loop or has consumed
\* at least one byte: no iteration goes on with as many bytes left as
\* before.  The bytes left are finitely many, so every loop is left after
\* at most as many iterations as the text has bytes.
C21_EveryIterationConsumes == zeroes = 0

\* The loop of array_items_opt on [1,1, has gone on after the second
\* element, with the last comma left.
C21_Witness ==
    /\ pc = "loop"
    /\ helper = "array_items_opt"
    /\ toks = <<<<91>>, <<49, 44>>, <<49, 44>>>>
    /\ pending = <<44>>

(***************************************************************************)
(* Specification AssertSpec: texts of at most MaxAssertToks pieces that    *)
(* open every production with a lookahead assertion, and bytes that open   *)
(* none.                                                                   *)
(***************************************************************************)
MaxAssertToks == 3

\* {  [  ]  -  0  7  |  a:  e-acute  middle dot  null  fals  `,` LF
AssertAlphabet ==
    {<<123>>, <<91>>, <<93>>, <<45>>, <<48>>, <<55>>, <<124>>, <<97, 58>>,
     <<195, 169>>, <<194, 183>>, <<110, 117, 108, 108>>, <<102, 97, 108, 115>>,
     <<44, 10>>}

AssertInit == InitOver(SeqsUpTo(AssertAlphabet, MaxAssertToks))

AssertSpec == AssertInit /\ [][Next]_vars

\* C23: no lookahead assertion fails during a parse: object_no_peek,
\* array_no_peek, number_no_peek, verbatim_string_no_peek and
\* bare_string_no_peek are entered with the byte they expect next in the
\* source, and fixed_token_opt is called with a token of at most
\* MAX_TOKEN_LEN bytes; whatever the text, the entry points return a value
\* or a reader error.
C23_AssertionsHold ==
    \A e \in {"value", "document"} :
        Done(e) => result.cause # ASSERTION_FAILED

\* [ - 7 : array_no_peek and number_no_peek have been entered, and the parse
\* fails for the missing bracket.
C23_Witness ==
    /\ Done("value")
    /\ toks = <<<<91>>, <<45>>, <<55>>>>
    /\ ~result.ok
    /\ result.cause = "expected ']'"
    /\ result.pos = 3

====
